---- MODULE Spec2Model ----
(***************************************************************************)
(* The course generation pipeline of didactio: createCourse and its        *)
(* background run processCourseAsync, resumeCourse / resumeCourseAsync and *)
(* regenerateSection (services/course.service.ts), together with           *)
(* generateModuleContent / extractModuleSummary (ai/content.service.ts),   *)
(* filterAndImprovePrompt (ai/prompt.service.ts) and generateSyllabus      *)
(* (ai/syllabus.service.ts).                                               *)
(*                                                                         *)
(* One course document is modelled.  db is the persisted document; every   *)
(* task works on the in-memory copy it loaded with findById and writes it  *)
(* back with save().  A task is cut into steps at its awaits on the        *)
(* generation service: one action per call issued / call returned.         *)
(*                                                                         *)
(* Conventions.                                                            *)
(*  - Positions are 1-based: position p is the source's plan index p - 1,  *)
(*    so the source's `Module ${i + 1}` is p and slice(0, index) is the    *)
(*    first p - 1 entries.                                                 *)
(*  - A JavaScript array that was assigned past its end has holes; the     *)
(*    persisted array holds null there.  Null stands for such an entry;    *)
(*    reading a property of it throws a TypeError.                         *)
(*  - save() is taken to acknowledge (the persistence collaborator's       *)
(*    contract); operations on the course run one at a time.               *)
(***************************************************************************)
EXTENDS Integers, Sequences, FiniteSets, TLC

\* Largest number of plan modules in a syllabus.
MaxModules == 3
\* Largest number of events after Create (Resume, Regenerate, process stop).
MaxOps == 3
\* With several courses: largest plan, and largest number of operations on
\* one course after its Create.
MaxCourseModules == 2
MaxCourseOps == 1
\* With two tasks on one course: largest plan, and largest number of
\* operations after Create.
MaxRaceModules == 1
MaxRaceOps == 2
\* Largest tokenVersion of the user.
MaxVersion == 2
\* Largest number of registerUser calls between their check and their create.
MaxRegistering == 2

VARIABLES db, run, reg, inflight, hist, ret

\* Several courses side by side: the collection of course documents by _id,
\* the task working on each course, and for each course what its document
\* and task would be had its operations run with no other course around.
VARIABLES courses, tasks, alone

fleet == <<courses, tasks, alone>>

\* Sessions: the user document, the tokens issued so far, those issued
\* before a logout or a role update, the last request answered, and for
\* each role the registerUser calls that have passed their check of the
\* email and have not created the user yet.
VARIABLES user, issued, revoked, req, registering

auth == <<user, issued, revoked, req, registering>>

vars == <<db, run, reg, inflight, hist, ret, courses, tasks, alone,
          user, issued, revoked, req, registering>>

----------------------------------------------------------------------------
(* Values *)

Null == [null |-> TRUE]

NoMsg == [set |-> FALSE, prefix |-> "", failed |-> <<>>]

Msg(prefix, failed) == [set |-> TRUE, prefix |-> prefix, failed |-> failed]

NoSyllabus == [present |-> FALSE, modules |-> <<>>, description |-> <<>>]

NoCourse ==
  [exists |-> FALSE, status |-> "draft", errorMessage |-> NoMsg,
   improvedPrompt |-> FALSE, syllabus |-> NoSyllabus,
   modules |-> <<>>, iterationSummaries |-> <<>>]

NoContent == [pos |-> 0, gen |-> 0]

NoSummary == [pos |-> 0, gen |-> 0, text |-> ""]

Max(S) == IF S = {} THEN 0 ELSE CHOOSE x \in S : \A y \in S : y <= x

\* Titles are opaque strings compared by equality only: a syllabus is taken
\* up to renaming of its titles (the first title is 1, a new title is the
\* next unused number).  Duplicate titles are schema-valid.
IsCanonical(s) ==
  \A p \in DOMAIN s : s[p] <= 1 + Max({s[q] : q \in 1..(p - 1)})

Syllabi ==
  UNION {{s \in [1..n -> 1..MaxModules] : IsCanonical(s)} : n \in 0..MaxModules}

\* the description is a text, kept as the list of its parts
MkSyllabus(s) ==
  [present |-> TRUE, modules |-> [p \in DOMAIN s |-> [title |-> s[p]]],
   description |-> <<"description">>]

\* the responses of the qualifier call: JSON with isValid true and an
\* improvedPrompt; with isValid true alone; with isValid false and a
\* rejectionReason; with isValid false alone; JSON without the isValid key,
\* with or without a rejectionReason; no content; text that is not JSON; a
\* transport error
QualifierOutcomes ==
  {"valid", "valid_no_prompt", "rejected", "no_reason", "no_validity",
   "no_validity_reason", "empty", "malformed", "throw"}

\* Resume and Regenerate never read improvedPrompt: where they are the
\* subject, an accepted topic comes with its improvedPrompt.
OpQualifierOutcomes == QualifierOutcomes \ {"valid_no_prompt"}

\* the responses of the syllabus call: a JSON document, no content, text that
\* is not JSON, a transport error
SyllabusOutcomes == {"json", "empty", "unparseable", "throw"}

\* the keys of the syllabus schema (a key of a module or of a lesson stands
\* for that key in some module or lesson of the document)
SchemaKeys ==
  {"topic", "title", "keywords", "description", "total_duration_minutes",
   "modules", "modules.title", "modules.overview",
   "modules.estimated_duration_minutes", "modules.lessons",
   "lessons.title", "lessons.content_outline"}

\* the `required` lists of the schema
SchemaRequired ==
  {"topic", "title", "keywords", "description", "total_duration_minutes",
   "modules", "modules.title", "modules.lessons",
   "lessons.title", "lessons.content_outline"}

\* what a JSON response leaves out: one key of the schema, the items of
\* the lessons list of a module (the list is there and empty), or nothing
Omissions == SchemaKeys \cup {"lessons.items", "none"}

ContentOutcomes == {"ok", "empty", "error"}

SummaryOutcomes == {"text", "empty", "throw"}

OpContentOutcomes == {"ok", "error"}

OpSummaryOutcomes == {"text"}

----------------------------------------------------------------------------
(* JavaScript array operations *)

\* arr.slice(0, end)
Slice(arr, end) == SubSeq(arr, 1, IF end < Len(arr) THEN end ELSE Len(arr))

\* arr[p] = v, which extends the array (leaving holes) when p is past the end
ArraySet(arr, p, v) ==
  [q \in 1..(IF p > Len(arr) THEN p ELSE Len(arr)) |->
     IF q = p THEN v ELSE IF q <= Len(arr) THEN arr[q] ELSE Null]

HasNull(arr) == \E q \in DOMAIN arr : arr[q] = Null

TitleAt(arr, q, title) == arr[q] # Null /\ arr[q].title = title

\* arr.findIndex(m => m.title === title) as a position, 0 for "not found"
FindIndex(arr, title) ==
  IF \E q \in DOMAIN arr : TitleAt(arr, q, title)
  THEN CHOOSE q \in DOMAIN arr :
         /\ TitleAt(arr, q, title)
         /\ \A r \in 1..(q - 1) : ~TitleAt(arr, r, title)
  ELSE 0

\* findIndex reads .title of every entry up to the first match: it throws
\* when a null entry comes before it
FindIndexThrows(arr, title) ==
  \E q \in DOMAIN arr :
    /\ arr[q] = Null
    /\ \A r \in 1..(q - 1) : ~TitleAt(arr, r, title)

\* failedModules.join("; ") keeps every entry, in order
Join(failed) == failed

----------------------------------------------------------------------------
(* The generation services *)

\* filterAndImprovePrompt: the value it returns for each response of the
\* qualifier call.  A response without rejectionReason or improvedPrompt
\* leaves it undefined (improvedPrompt is TRUE when the result has one); the
\* syllabus call is then given the topic "undefined".
filterAndImprovePrompt(outcome) ==
  CASE outcome = "valid" ->
         [isValid |-> TRUE, improvedPrompt |-> TRUE, rejectionReason |-> NoMsg]
    [] outcome = "valid_no_prompt" ->
         [isValid |-> TRUE, improvedPrompt |-> FALSE, rejectionReason |-> NoMsg]
    [] outcome = "rejected" ->
         [isValid |-> FALSE, improvedPrompt |-> FALSE,
          rejectionReason |-> Msg("rejection reason", <<>>)]
    [] outcome = "no_reason" ->
         [isValid |-> FALSE, improvedPrompt |-> FALSE, rejectionReason |-> NoMsg]
    \* result.isValid is undefined, which !filterResult.isValid takes as false
    [] outcome = "no_validity" ->
         [isValid |-> FALSE, improvedPrompt |-> TRUE, rejectionReason |-> NoMsg]
    [] outcome = "no_validity_reason" ->
         [isValid |-> FALSE, improvedPrompt |-> FALSE,
          rejectionReason |-> Msg("rejection reason", <<>>)]
    [] outcome = "empty" ->
         [isValid |-> FALSE, improvedPrompt |-> FALSE,
          rejectionReason |-> Msg("No response from AI", <<>>)]
    [] OTHER ->
         [isValid |-> FALSE, improvedPrompt |-> FALSE,
          rejectionReason |-> Msg("Failed to parse AI response", <<>>)]

\* a schema without the required lists
validateLax(omitted) == TRUE

\* validate(parsed): every required key is there; the schema sets no
\* minItems, so an empty list is a valid array
validate(omitted) == omitted \notin SchemaRequired

\* generateSyllabus: the value it returns for each response of the syllabus
\* call; s is the plan a JSON response carries, omitted the key it leaves out.
generateSyllabus(outcome, s, omitted) ==
  CASE outcome = "json" /\ validate(omitted) ->
         [success |-> TRUE, syllabus |-> MkSyllabus(s), error |-> NoMsg]
    [] outcome = "json" /\ ~validate(omitted) ->
         [success |-> FALSE, syllabus |-> NoSyllabus,
          error |-> Msg("Schema validation failed: ", <<>>)]
    [] outcome = "empty" ->
         [success |-> FALSE, syllabus |-> NoSyllabus,
          error |-> Msg("No response from AI", <<>>)]
    [] OTHER ->
         [success |-> FALSE, syllabus |-> NoSyllabus,
          error |-> Msg("Failed to parse syllabus: ", <<>>)]

\* a module prompt that counts the current module among the previous ones
createModulePromptInclusive(modules, moduleIndex) ==
  LET status(index) ==
        IF index = moduleIndex THEN " (CURRENT MODULE)"
        ELSE IF index < moduleIndex THEN " (COMPLETED)"
        ELSE IF index > moduleIndex THEN " (UPCOMING)"
        ELSE ""
      previousModules == Slice(modules, moduleIndex + 1)
      upcomingModules == SubSeq(modules, moduleIndex + 2, Len(modules))
  IN [courseContext |-> [p \in DOMAIN modules |-> status(p - 1)],
      prerequisiteContext |->
        IF Len(previousModules) > 0
        THEN "Prerequisites (from previous modules)"
        ELSE "This is the first module",
      forwardContext |->
        IF Len(upcomingModules) > 0
        THEN "Upcoming modules (to prepare students for)"
        ELSE "This is the final module"]

\* createModulePrompt: the mark put on each plan module, and which text the
\* prerequisite block and the forward block carry.  moduleIndex counts from
\* 0 as in the code; the p-th entry of courseContext is that of index p - 1.
createModulePrompt(modules, moduleIndex) ==
  LET status(index) ==
        IF index = moduleIndex THEN " (CURRENT MODULE)"
        ELSE IF index < moduleIndex THEN " (COMPLETED)"
        ELSE IF index > moduleIndex THEN " (UPCOMING)"
        ELSE ""
      previousModules == Slice(modules, moduleIndex)
      upcomingModules == SubSeq(modules, moduleIndex + 2, Len(modules))
  IN [courseContext |-> [p \in DOMAIN modules |-> status(p - 1)],
      prerequisiteContext |->
        IF Len(previousModules) > 0
        THEN "Prerequisites (from previous modules)"
        ELSE "This is the first module",
      forwardContext |->
        IF Len(upcomingModules) > 0
        THEN "Upcoming modules (to prepare students for)"
        ELSE "This is the final module"]

\* a summary extraction without placeholders
extractModuleSummaryRaw(outcome) ==
  IF outcome = "text" THEN "text" ELSE ""

\* extractModuleSummary never fails: an empty response and an exception are
\* replaced by placeholder texts.
extractModuleSummary(outcome) ==
  CASE outcome = "text" -> "text"
    [] outcome = "empty" -> "Summary not available"
    [] OTHER -> "Summary extraction failed"

\* generateModuleContent: the failure it returns when the content call
\* yields no content or throws.
ContentFailure(outcome) ==
  [success |-> FALSE, content |-> NoContent, summary |-> NoSummary,
   error |-> IF outcome = "empty" THEN "No response from AI"
             ELSE "Failed to generate module content: API error"]

\* generateModuleContent: the success it returns once the summary is known.
ContentSuccess(content, summary) ==
  [success |-> TRUE, content |-> content, summary |-> summary, error |-> ""]

\* the message of an exception thrown by generateModuleContent itself
ClientError == "client error"

\* the message of the TypeError raised by reading .title of a null entry
NullError == "Cannot read properties of null (reading 'title')"

\* `Module ${i + 1} (${module.title}): ${reason}`
FailedEntry(p, title, reason) == [pos |-> p, title |-> title, reason |-> reason]

\* { ...module, generatedContent, summary }
Realized(pmod, result) ==
  [title |-> pmod.title, generatedContent |-> result.content,
   summary |-> result.summary]

----------------------------------------------------------------------------
(* Task state *)

\* filterResult and syllabusResult before the calls have returned
NoFilter ==
  [returned |-> FALSE, isValid |-> FALSE, improvedPrompt |-> FALSE,
   rejectionReason |-> NoMsg, response |-> "none"]

NoResult ==
  [returned |-> FALSE, success |-> FALSE, syllabus |-> NoSyllabus,
   error |-> NoMsg, omitted |-> "none"]

\* no module prompt built yet
NoPrompt ==
  [courseContext |-> <<>>, prerequisiteContext |-> "", forwardContext |-> ""]

\* The locals of the asynchronous task, and a record of what it did: the
\* positions it attempted and their outcomes, the statuses it persisted
\* (writes), the message of the exception its outermost catch caught (fatal).
IdleRun ==
  [pc |-> "idle", kind |-> "none", course |-> NoCourse, i |-> 0,
   summaries |-> <<>>, failedModules |-> <<>>, missing |-> <<>>,
   prev |-> <<>>, content |-> NoContent,
   attempts |-> <<>>, results |-> <<>>, pre |-> NoCourse,
   filterResult |-> NoFilter, syllabusResult |-> NoResult,
   writes |-> <<>>, fatal |-> "", prompt |-> NoPrompt]

\* The locals of a regenerateSection call: error is contentResult.error of
\* a failed generation, writes the statuses the call persisted.
IdleReg ==
  [pc |-> "idle", k |-> 0, course |-> NoCourse, prev |-> <<>>,
   content |-> NoContent, pre |-> NoCourse, error |-> "",
   syllabusWithContext |-> NoSyllabus, writes |-> <<>>]

Active(t) == t.pc \notin {"idle", "done"}

\* Operations on the course are invoked one at a time.
Quiet == ~Active(run) /\ ~Active(reg)

Budget == Len(hist) < 1 + MaxOps

\* the number of the operation that generates a piece of content
Gen == Len(hist)

Call(task, call, p) == [task |-> task, call |-> call, pos |-> p]

TypeOK ==
  /\ db.status \in {"draft", "filtering_prompt", "generating_syllabus",
                    "generating_content", "ready", "error"}
  /\ run.pc \in {"idle", "start", "qualifier", "syllabus", "loop", "content",
                 "summary", "done"}
  /\ reg.pc \in {"idle", "done"}
  /\ ret \in {"none", "course", "null", "throw", "pending"}

\* the _id values of the course documents
CourseIds == {1, 2}

\* a collection with no document
NoCourses == [d \in CourseIds |-> NoCourse]

\* The locals of the task working on one course: the courseId it was
\* given, the document it loaded (its _id and its fields), the loop's
\* locals, the moduleIndex of a Regenerate, the document as the task last
\* loaded or saved it (base), the persistence layer of the collection
\* (layer); ops counts the Create, Resume
\* and Regenerate operations invoked on the course and answer is what the
\* last one gave its caller; deletes counts the deleteCourse calls and
\* deleted is what the last one returned.
IdleTask ==
  [pc |-> "idle", kind |-> "none", courseId |-> 0, id |-> 0,
   course |-> NoCourse, i |-> 0, missing |-> <<>>, summaries |-> <<>>,
   failedModules |-> <<>>, results |-> <<>>, k |-> 0, ops |-> 0,
   answer |-> "none", deletes |-> 0, deleted |-> "none", base |-> NoCourse,
   layer |-> "none"]

\* no user document
UserRoles == {"standard", "premium", "admin"}

NoUser == [exists |-> FALSE, role |-> "standard", tokenVersion |-> 0]

\* no request made yet
NoRequest ==
  [op |-> "none", token |-> [typ |-> "none", ver |-> 0, role |-> "standard"],
   wasRevoked |-> FALSE, status |-> 0]

Init ==
  /\ user = NoUser
  /\ issued = {}
  /\ revoked = {}
  /\ req = NoRequest
  /\ registering = [role \in UserRoles |-> 0]
  /\ courses = NoCourses
  /\ tasks = [c \in CourseIds |-> IdleTask]
  /\ alone = [c \in CourseIds |-> [store |-> NoCourses, task |-> IdleTask]]
  /\ db = NoCourse
  /\ run = IdleRun
  /\ reg = IdleReg
  /\ inflight = {}
  /\ hist = <<>>
  /\ ret = "none"

----------------------------------------------------------------------------
(* Create: createCourse and processCourseAsync *)

\* a new course left at the schema's default status
NewCourseDraft ==
  [exists |-> TRUE, status |-> "draft", errorMessage |-> NoMsg,
   improvedPrompt |-> FALSE, syllabus |-> NoSyllabus,
   modules |-> <<>>, iterationSummaries |-> <<>>]

\* new Course({ status: "filtering_prompt", ..., modules: [],
\* iterationSummaries: [] })
NewCourse ==
  [exists |-> TRUE, status |-> "filtering_prompt", errorMessage |-> NoMsg,
   improvedPrompt |-> FALSE, syllabus |-> NoSyllabus,
   modules |-> <<>>, iterationSummaries |-> <<>>]

\* a Create whose caller waits for the background run
createCourseAwaits ==
  /\ ~db.exists
  /\ db' = NewCourse
  /\ run' = [IdleRun EXCEPT !.pc = "start", !.kind = "create",
                            !.writes = <<NewCourse.status>>]
  /\ hist' = Append(hist, "create")
  /\ ret' = "pending"
  /\ UNCHANGED <<reg, inflight>>

  /\ UNCHANGED <<fleet, auth>>
createCourse ==
  /\ ~db.exists
  /\ db' = NewCourse
  /\ run' = [IdleRun EXCEPT !.pc = "start", !.kind = "create",
                            !.writes = <<NewCourse.status>>]
  /\ hist' = Append(hist, "create")
  /\ ret' = "course"
  /\ UNCHANGED <<reg, inflight>>

  /\ UNCHANGED <<fleet, auth>>
\* processCourseAsync up to its first generation call; it returns at once
\* when findById gives no document
ProcessStart ==
  /\ run.pc = "start"
  /\ run.kind = "create"
  /\ IF ~db.exists
     THEN /\ run' = [run EXCEPT !.pc = "done"]
          /\ UNCHANGED inflight
     ELSE /\ run' = [run EXCEPT !.pc = "qualifier", !.course = db]
          /\ inflight' = inflight \cup {Call("run", "qualifier", 0)}
  /\ UNCHANGED <<db, reg, hist, ret>>

  /\ UNCHANGED <<fleet, auth>>
\* an outermost catch that records the message only
FatalCourseKeepsStatus(course, msg) ==
  IF course.exists
  THEN [course EXCEPT !.errorMessage = Msg(msg, <<>>)]
  ELSE course

\* the outermost catch, given the document it reloaded: force error and
\* save, if there is a document
FatalCourse(course, msg) ==
  IF course.exists
  THEN [course EXCEPT !.status = "error", !.errorMessage = Msg(msg, <<>>)]
  ELSE course

\* a rejection that does not record its reason
QualifierRejectedSilent(course, filterResult) ==
  [course EXCEPT !.status = "error"]

QualifierRejected(course, filterResult) ==
  [course EXCEPT !.status = "error",
                 !.errorMessage = filterResult.rejectionReason]

\* an accepted topic that goes straight to content generation
QualifierAcceptedSkips(course, filterResult) ==
  [course EXCEPT !.improvedPrompt = filterResult.improvedPrompt,
                 !.status = "generating_content"]

QualifierAccepted(course, filterResult) ==
  [course EXCEPT !.improvedPrompt = filterResult.improvedPrompt,
                 !.status = "generating_syllabus"]

\* the message of a transport error of the generation service
ApiError == "API error"

\* the message of a rejected save
SaveError == "save failed"

QualifierReturn(outcome) ==
  /\ run.pc = "qualifier"
  /\ LET filterResult == filterAndImprovePrompt(outcome)
         course == IF outcome = "throw" THEN FatalCourse(db, ApiError)
                   ELSE IF filterResult.isValid
                        THEN QualifierAccepted(run.course, filterResult)
                        ELSE QualifierRejected(run.course, filterResult)
         goOn == outcome # "throw" /\ filterResult.isValid
     IN /\ db' = course
        /\ run' = [run EXCEPT
                     !.course = course,
                     !.pc = IF goOn THEN "syllabus" ELSE "done",
                     !.filterResult =
                        IF outcome = "throw" THEN @
                        ELSE [returned |-> TRUE,
                              isValid |-> filterResult.isValid,
                              improvedPrompt |-> filterResult.improvedPrompt,
                              rejectionReason |-> filterResult.rejectionReason,
                              response |-> outcome],
                     !.fatal = IF outcome = "throw" THEN ApiError ELSE @,
                     !.writes = Append(@, course.status)]
        /\ inflight' = IF goOn THEN {Call("run", "syllabus", 0)} ELSE {}
  /\ UNCHANGED <<reg, hist, ret>>

  /\ UNCHANGED <<fleet, auth>>
SyllabusFailed(course, syllabusResult) ==
  [course EXCEPT !.status = "error", !.errorMessage = syllabusResult.error]

SyllabusStored(course, syllabusResult) ==
  [course EXCEPT !.syllabus = syllabusResult.syllabus,
                 !.status = "generating_content"]

SyllabusReturn(outcome, s, omitted) ==
  /\ run.pc = "syllabus"
  /\ LET syllabusResult == generateSyllabus(outcome, s, omitted)
         course == IF outcome = "throw" THEN FatalCourse(db, ApiError)
                   ELSE IF syllabusResult.success
                        THEN SyllabusStored(run.course, syllabusResult)
                        ELSE SyllabusFailed(run.course, syllabusResult)
         goOn == outcome # "throw" /\ syllabusResult.success
     IN /\ db' = course
        /\ run' = [run EXCEPT
                     !.course = course, !.i = 1,
                     !.pc = IF goOn THEN "loop" ELSE "done",
                     !.syllabusResult =
                        IF outcome = "throw" THEN @
                        ELSE [returned |-> TRUE,
                              success |-> syllabusResult.success,
                              syllabus |-> syllabusResult.syllabus,
                              error |-> syllabusResult.error,
                              omitted |-> IF outcome = "json" THEN omitted
                                          ELSE "none"],
                     !.fatal = IF outcome = "throw" THEN ApiError ELSE @,
                     !.writes = Append(@, course.status)]
        /\ inflight' = {}
  /\ UNCHANGED <<reg, hist, ret>>

  /\ UNCHANGED <<fleet, auth>>
\* the syllabus call of the run returns, with any response
SyllabusAnswer ==
  /\ run.pc = "syllabus"
  /\ \E o \in SyllabusOutcomes, s \in Syllabi, omitted \in Omissions :
       SyllabusReturn(o, s, omitted)

----------------------------------------------------------------------------
(* The module loop, shared by processCourseAsync and resumeCourseAsync *)

Plan(course) == course.syllabus.modules

\* the number of iterations of the loop
LoopLen(r) == IF r.kind = "create" THEN Len(Plan(r.course)) ELSE Len(r.missing)

\* the plan position of the current iteration
CurPos(r) == IF r.kind = "create" THEN r.i ELSE r.missing[r.i]

\* the previousSummaries argument of the current iteration
PrevSummaries(r) ==
  IF r.kind = "create" THEN r.summaries
  ELSE Slice(r.course.iterationSummaries, CurPos(r) - 1)

\* a loop that starts the next module while the summary call is pending
CanIssueNextFanOut(r) == r.pc \in {"loop", "summary"}

\* the loop awaits generateModuleContent: the next call is issued only when
\* no call of the run is pending
CanIssueNext(r) == r.pc = "loop"

\* a forward pass that keeps the summary of a placeholder text out of
\* iterationSummaries
ForwardSuccessTextOnly(course, pmod, result) ==
  [course EXCEPT
     !.modules = Append(@, Realized(pmod, result)),
     !.iterationSummaries =
        IF result.summary.text = "text" THEN Append(@, result.summary) ELSE @]

\* a forward pass that puts the newest module first
ForwardSuccessPrepend(course, pmod, result) ==
  [course EXCEPT
     !.modules = <<Realized(pmod, result)>> \o @,
     !.iterationSummaries =
        IF result.summary.text # "" THEN Append(@, result.summary) ELSE @]

\* processCourseAsync, contentResult.success
ForwardSuccess(course, pmod, result) ==
  [course EXCEPT
     !.modules = Append(@, Realized(pmod, result)),
     !.iterationSummaries =
        IF result.summary.text # "" THEN Append(@, result.summary) ELSE @]

\* resumeCourseAsync, contentResult.success
ResumeSuccess(course, p, pmod, result) ==
  LET existingModuleIndex == FindIndex(course.modules, pmod.title)
      newModule == Realized(Plan(course)[p], result)
  IN [course EXCEPT
        !.modules = IF existingModuleIndex > 0
                    THEN [@ EXCEPT ![existingModuleIndex] = newModule]
                    ELSE Append(@, newModule),
        !.iterationSummaries =
           IF result.summary.text # "" THEN ArraySet(@, p, result.summary)
           ELSE @]

\* a loop that a failed module ends
NextIndexBreak(r, succeeded) == IF succeeded THEN r.i + 1 ELSE LoopLen(r) + 1

\* the step of the loop variable after an iteration
NextIndex(r, succeeded) == r.i + 1

\* an iteration that ends in a failure (a failure result or an exception)
RecordFailure(r, outcome, reason) ==
  [r EXCEPT
     !.pc = "loop",
     !.i = NextIndex(r, FALSE),
     !.failedModules =
        Append(@, FailedEntry(CurPos(r), Plan(r.course)[CurPos(r)].title, reason)),
     !.results = Append(@, [pos |-> CurPos(r), outcome |-> outcome])]

\* generateModuleContent is entered and issues the content call
ContentIssue ==
  /\ CanIssueNext(run)
  /\ run.i <= LoopLen(run)
  /\ run' = [run EXCEPT !.pc = "content",
                        !.prompt = createModulePrompt(Plan(run.course),
                                                      CurPos(run) - 1),
                        !.prev = PrevSummaries(run),
                        !.attempts = Append(@, CurPos(run))]
  /\ inflight' = inflight \cup {Call("run", "content", CurPos(run))}
  /\ UNCHANGED <<db, reg, hist, ret>>

  /\ UNCHANGED <<fleet, auth>>
\* generateModuleContent throws before the content call is issued
ContentThrow ==
  /\ CanIssueNext(run)
  /\ run.i <= LoopLen(run)
  /\ run' = [RecordFailure(run, "throw", ClientError) EXCEPT
               !.prev = PrevSummaries(run),
               !.attempts = Append(@, CurPos(run))]
  /\ UNCHANGED <<db, reg, inflight, hist, ret>>

  /\ UNCHANGED <<fleet, auth>>
ContentReturn(outcome) ==
  /\ run.pc = "content"
  /\ IF outcome = "ok"
     THEN /\ run' = [run EXCEPT !.pc = "summary",
                                !.content = [pos |-> CurPos(run), gen |-> Gen]]
          /\ inflight' = (inflight \ {Call("run", "content", CurPos(run))})
                           \cup {Call("run", "summary", CurPos(run))}
     ELSE /\ run' = RecordFailure(run, outcome, ContentFailure(outcome).error)
          /\ inflight' = inflight \ {Call("run", "content", CurPos(run))}
  /\ UNCHANGED <<db, reg, hist, ret>>

  /\ UNCHANGED <<fleet, auth>>
\* a loop that keeps a generated module in memory until the final save
SummaryReturnUnsaved(outcome) ==
  /\ run.pc = "summary"
  /\ LET p == CurPos(run)
         pmod == Plan(run.course)[p]
         summary == [pos |-> p, gen |-> Gen, text |-> extractModuleSummary(outcome)]
         result == ContentSuccess(run.content, summary)
     IN IF run.kind = "resume" /\ FindIndexThrows(run.course.modules, pmod.title)
        THEN /\ run' = [RecordFailure(run, "typeerror", NullError) EXCEPT
                          !.content = NoContent]
             /\ UNCHANGED db
        ELSE LET course == IF run.kind = "create"
                           THEN ForwardSuccess(run.course, pmod, result)
                           ELSE ResumeSuccess(run.course, p, pmod, result)
             IN /\ UNCHANGED db
                /\ run' = [run EXCEPT
                     !.pc = "loop",
                     !.i = NextIndex(run, TRUE),
                     !.course = course,
                     !.content = NoContent,
                     !.writes = Append(@, course.status),
                     !.summaries =
                        IF run.kind = "create" /\ summary.text # ""
                        THEN Append(@, summary) ELSE @,
                     !.results = Append(@, [pos |-> p, outcome |-> "ok"])]
  /\ inflight' = inflight \ {Call("run", "summary", CurPos(run))}
  /\ UNCHANGED <<reg, hist, ret>>

  /\ UNCHANGED <<fleet, auth>>
SummaryReturn(outcome) ==
  /\ run.pc = "summary"
  /\ LET p == CurPos(run)
         pmod == Plan(run.course)[p]
         summary == [pos |-> p, gen |-> Gen, text |-> extractModuleSummary(outcome)]
         result == ContentSuccess(run.content, summary)
     IN IF run.kind = "resume" /\ FindIndexThrows(run.course.modules, pmod.title)
        THEN /\ run' = [RecordFailure(run, "typeerror", NullError) EXCEPT
                          !.content = NoContent]
             /\ UNCHANGED db
        ELSE LET course == IF run.kind = "create"
                           THEN ForwardSuccess(run.course, pmod, result)
                           ELSE ResumeSuccess(run.course, p, pmod, result)
             IN /\ db' = course
                /\ run' = [run EXCEPT
                     !.pc = "loop",
                     !.i = NextIndex(run, TRUE),
                     !.course = course,
                     !.content = NoContent,
                     !.writes = Append(@, course.status),
                     !.summaries =
                        IF run.kind = "create" /\ summary.text # ""
                        THEN Append(@, summary) ELSE @,
                     !.results = Append(@, [pos |-> p, outcome |-> "ok"])]
  /\ inflight' = inflight \ {Call("run", "summary", CurPos(run))}
  /\ UNCHANGED <<reg, hist, ret>>

  /\ UNCHANGED <<fleet, auth>>
\* a final step that lets any failed module fail the course
FinalizeForwardStrict(course, failedModules) ==
  IF Len(failedModules) > 0
  THEN [course EXCEPT
          !.status = "error",
          !.errorMessage =
             Msg("All modules failed to generate. Errors: ", Join(failedModules))]
  ELSE [course EXCEPT !.status = "ready"]

\* processCourseAsync after the loop
\* a final status that takes a pass without failures for a success
FinalizeForwardByFailures(course, failedModules) ==
  IF Len(course.modules) = 0 /\ Len(failedModules) > 0
  THEN [course EXCEPT
          !.status = "error",
          !.errorMessage =
             Msg("All modules failed to generate. Errors: ", Join(failedModules))]
  ELSE IF Len(failedModules) > 0
  THEN [course EXCEPT
          !.status = "ready",
          !.errorMessage =
             Msg("Completed with N failed modules: ", Join(failedModules))]
  ELSE [course EXCEPT !.status = "ready"]

FinalizeForward(course, failedModules) ==
  IF Len(course.modules) = 0
  THEN [course EXCEPT
          !.status = "error",
          !.errorMessage =
             Msg("All modules failed to generate. Errors: ", Join(failedModules))]
  ELSE IF Len(failedModules) > 0
  THEN [course EXCEPT
          !.status = "ready",
          !.errorMessage =
             Msg("Completed with N failed modules: ", Join(failedModules))]
  ELSE [course EXCEPT !.status = "ready"]

RECURSIVE SortFrom(_, _, _)
SortFrom(mods, plan, k) ==
  IF Len(mods) < 2 THEN mods
  ELSE IF k > Len(plan) THEN <<>>
  ELSE SelectSeq(mods, LAMBDA m : FindIndex(plan, m.title) = k)
         \o SortFrom(mods, plan, k + 1)

\* a final step without the sort
SortByPlanNone(mods, plan) == mods

\* course.modules.sort by the position of the title in the plan (stable;
\* a title the plan lacks has index -1 and sorts first); the comparator is
\* not called on an array of fewer than two entries, which is left as it is
SortByPlan(mods, plan) == SortFrom(mods, plan, 0)

\* the comparator reads .title of both entries
SortThrows(mods) == HasNull(mods) /\ Len(mods) >= 2

\* resumeCourseAsync after the loop
FinalizeResume(course, failedModules) ==
  LET sorted == [course EXCEPT !.modules = SortByPlan(@, Plan(course))]
  IN IF Len(sorted.modules) = Len(Plan(course))
     THEN [sorted EXCEPT
             !.status = "ready",
             !.errorMessage =
                IF Len(failedModules) > 0
                THEN Msg("Completed with some issues: ", Join(failedModules))
                ELSE NoMsg]
     ELSE IF Len(failedModules) > 0
     THEN [sorted EXCEPT
             !.status = "error",
             !.errorMessage =
                Msg("Resume failed for some modules: ", Join(failedModules))]
     ELSE sorted

\* the loop is over: final status and save
Finish ==
  /\ CanIssueNext(run)
  /\ run.i > LoopLen(run)
  /\ LET course ==
           IF run.kind = "create"
           THEN FinalizeForward(run.course, run.failedModules)
           ELSE IF SortThrows(run.course.modules)
                THEN FatalCourse(db, NullError)
                ELSE FinalizeResume(run.course, run.failedModules)
     IN /\ db' = course
        /\ run' = [run EXCEPT
                     !.pc = "done", !.course = course,
                     !.fatal = IF run.kind = "resume"
                                  /\ SortThrows(run.course.modules)
                               THEN NullError ELSE @,
                     !.writes = Append(@, course.status)]
  /\ UNCHANGED <<reg, inflight, hist, ret>>

  /\ UNCHANGED <<fleet, auth>>
\* the loop is over and the final save is rejected: the outermost catch
\* reloads the course, forces error and saves
FinishSaveThrows ==
  /\ CanIssueNext(run)
  /\ run.i > LoopLen(run)
  /\ ~(run.kind = "resume" /\ SortThrows(run.course.modules))
  /\ LET course == FatalCourse(db, SaveError)
     IN /\ db' = course
        /\ run' = [run EXCEPT !.pc = "done", !.course = course,
                              !.fatal = SaveError,
                              !.writes = Append(@, course.status)]
  /\ UNCHANGED <<reg, inflight, hist, ret>>

  /\ UNCHANGED <<fleet, auth>>
----------------------------------------------------------------------------
(* Resume: resumeCourse and resumeCourseAsync *)

Titles(mods) == {mods[q].title : q \in DOMAIN mods}

\* the missingModules list, as plan positions in ascending order
MissingModules(course) ==
  SelectSeq([p \in 1..Len(Plan(course)) |-> p],
            LAMBDA p : Plan(course)[p].title \notin Titles(course.modules))

\* a no-missing branch that leaves the error in place
ResumeReadyKeepsError(course) == [course EXCEPT !.status = "ready"]

ResumeReady(course) ==
  [course EXCEPT !.status = "ready", !.errorMessage = NoMsg]

\* a Resume that clears the error and leaves the status
ResumeGeneratingKeepsStatus(course) == [course EXCEPT !.errorMessage = NoMsg]

ResumeGenerating(course) ==
  [course EXCEPT !.status = "generating_content", !.errorMessage = NoMsg]

\* resumeCourse with the id createCourse gave the course
resumeCourse ==
  /\ Quiet
  /\ Budget
  /\ hist # <<>>
  /\ hist' = Append(hist, "resume")
  /\ reg' = IdleReg
  /\ IF ~db.exists \/ ~db.syllabus.present
     THEN /\ ret' = "null"
          /\ run' = IdleRun
          /\ UNCHANGED db
     ELSE IF HasNull(db.modules)
     THEN /\ ret' = "throw"
          /\ run' = IdleRun
          /\ UNCHANGED db
     ELSE IF MissingModules(db) = <<>>
     THEN /\ ret' = "course"
          /\ run' = IdleRun
          /\ db' = ResumeReady(db)
     ELSE /\ ret' = "course"
          /\ run' = [IdleRun EXCEPT !.pc = "start", !.kind = "resume",
                                    !.missing = MissingModules(db),
                                    !.pre = db,
                                    !.writes = <<ResumeGenerating(db).status>>]
          /\ db' = ResumeGenerating(db)
  /\ UNCHANGED inflight

  /\ UNCHANGED <<fleet, auth>>
\* resumeCourseAsync up to its loop; it returns at once when findById
\* gives no document or one without a syllabus
ResumeStart ==
  /\ run.pc = "start"
  /\ run.kind = "resume"
  /\ run' = IF ~db.exists \/ ~db.syllabus.present
            THEN [run EXCEPT !.pc = "done"]
            ELSE [run EXCEPT !.pc = "loop", !.course = db, !.i = 1]
  /\ UNCHANGED <<db, reg, inflight, hist, ret>>

  /\ UNCHANGED <<fleet, auth>>
----------------------------------------------------------------------------
(* Regenerate: regenerateSection *)

\* { ...course.syllabus, description: description + "\n\nAdditional context
\* for regeneration: " + userContext }.  course.syllabus is a sub-document
\* of the loaded course (course.model.ts, syllabus: syllabusSchema), whose
\* fields are accessors of its prototype: the spread copies none of them,
\* and the copy has the description given after the spread and no modules.
syllabusWithContext(syllabus) ==
  [description |-> Append(syllabus.description, "context for regeneration")]

\* createModulePrompt starts with syllabusData.modules.map(...): a TypeError
\* when the syllabus it is given has no modules
PromptThrows(syllabusData) == "modules" \notin DOMAIN syllabusData

\* generateModuleContent: the failure its catch returns when building the
\* prompt threw; no call has been issued
PromptFailure ==
  [success |-> FALSE, content |-> NoContent, summary |-> NoSummary,
   error |-> "Failed to generate module content: Cannot read properties of undefined (reading 'map')"]

\* a Regenerate whose generation succeeds and that adds the module to the
\* course
regenerateSectionAppends(k, thrown) ==
  /\ Quiet
  /\ Budget
  /\ hist # <<>>
  /\ hist' = Append(hist, "regen")
  /\ run' = IdleRun
  /\ IF ~db.exists \/ ~db.syllabus.present \/ k > Len(Plan(db))
     THEN /\ ret' = "null"
          /\ reg' = IdleReg
          /\ UNCHANGED db
     ELSE IF thrown
     THEN /\ ret' = "throw"
          /\ reg' = IdleReg
          /\ UNCHANGED db
     ELSE LET summary == [pos |-> k, gen |-> Len(hist) + 1, text |-> "text"]
              result == ContentSuccess([pos |-> k, gen |-> Len(hist) + 1], summary)
              course == [db EXCEPT !.modules = Append(@, Realized(Plan(db)[k], result)),
                                    !.iterationSummaries = Append(@, summary)]
          IN /\ ret' = "course"
             /\ db' = course
             /\ reg' = [IdleReg EXCEPT
                          !.pc = "done", !.k = k, !.course = course, !.pre = db,
                          !.prev = Slice(db.iterationSummaries, k - 1),
                          !.syllabusWithContext = syllabusWithContext(db.syllabus),
                          !.writes = <<db.status>>]
  /\ UNCHANGED inflight

  /\ UNCHANGED <<fleet, auth>>
\* a Regenerate whose generation succeeds and that stores the module at the
\* plan index
regenerateSectionReplaces(k, thrown) ==
  /\ Quiet
  /\ Budget
  /\ hist # <<>>
  /\ hist' = Append(hist, "regen")
  /\ run' = IdleRun
  /\ IF ~db.exists \/ ~db.syllabus.present \/ k > Len(Plan(db))
     THEN /\ ret' = "null"
          /\ reg' = IdleReg
          /\ UNCHANGED db
     ELSE IF thrown
     THEN /\ ret' = "throw"
          /\ reg' = IdleReg
          /\ UNCHANGED db
     ELSE LET summary == [pos |-> k, gen |-> Len(hist) + 1, text |-> "text"]
              result == ContentSuccess([pos |-> k, gen |-> Len(hist) + 1], summary)
              course == [db EXCEPT !.modules = ArraySet(@, k, Realized(Plan(db)[k], result)),
                                    !.iterationSummaries = ArraySet(@, k, summary)]
          IN /\ ret' = "course"
             /\ db' = course
             /\ reg' = [IdleReg EXCEPT
                          !.pc = "done", !.k = k, !.course = course, !.pre = db,
                          !.prev = Slice(db.iterationSummaries, k - 1),
                          !.syllabusWithContext = syllabusWithContext(db.syllabus),
                          !.writes = <<db.status>>]
  /\ UNCHANGED inflight

  /\ UNCHANGED <<fleet, auth>>
\* a Regenerate whose generation succeeds and that drops what was generated
\* after the module
regenerateSectionResets(k, thrown) ==
  /\ Quiet
  /\ Budget
  /\ hist # <<>>
  /\ hist' = Append(hist, "regen")
  /\ run' = IdleRun
  /\ IF ~db.exists \/ ~db.syllabus.present \/ k > Len(Plan(db))
     THEN /\ ret' = "null"
          /\ reg' = IdleReg
          /\ UNCHANGED db
     ELSE IF thrown
     THEN /\ ret' = "throw"
          /\ reg' = IdleReg
          /\ UNCHANGED db
     ELSE LET summary == [pos |-> k, gen |-> Len(hist) + 1, text |-> "text"]
              result == ContentSuccess([pos |-> k, gen |-> Len(hist) + 1], summary)
              course == [db EXCEPT !.modules = Append(Slice(@, k - 1), Realized(Plan(db)[k], result)),
                                    !.iterationSummaries = Append(Slice(@, k - 1), summary)]
          IN /\ ret' = "course"
             /\ db' = course
             /\ reg' = [IdleReg EXCEPT
                          !.pc = "done", !.k = k, !.course = course, !.pre = db,
                          !.prev = Slice(db.iterationSummaries, k - 1),
                          !.syllabusWithContext = syllabusWithContext(db.syllabus),
                          !.writes = <<db.status>>]
  /\ UNCHANGED inflight

  /\ UNCHANGED <<fleet, auth>>
\* a Regenerate that records a failed generation in the course
regenerateSectionMarksError(k, thrown) ==
  /\ Quiet
  /\ Budget
  /\ hist # <<>>
  /\ hist' = Append(hist, "regen")
  /\ run' = IdleRun
  /\ IF ~db.exists \/ ~db.syllabus.present \/ k > Len(Plan(db))
     THEN /\ ret' = "null"
          /\ reg' = IdleReg
          /\ UNCHANGED db
     ELSE IF thrown
     THEN /\ ret' = "throw"
          /\ reg' = IdleReg
          /\ UNCHANGED db
     ELSE /\ PromptThrows(syllabusWithContext(db.syllabus))
          /\ ret' = "course"
          /\ db' = FatalCourse(db, PromptFailure.error)
          /\ reg' = [IdleReg EXCEPT
                       !.pc = "done", !.k = k, !.course = db', !.pre = db,
                       !.prev = Slice(db.iterationSummaries, k - 1),
                       !.syllabusWithContext = syllabusWithContext(db.syllabus),
                       !.error = PromptFailure.error,
                       !.writes = <<"error">>]
  /\ UNCHANGED inflight

  /\ UNCHANGED <<fleet, auth>>
\* a Regenerate that leaves the course ready
regenerateSectionForcesReady(k, thrown) ==
  /\ Quiet
  /\ Budget
  /\ hist # <<>>
  /\ hist' = Append(hist, "regen")
  /\ run' = IdleRun
  /\ IF ~db.exists \/ ~db.syllabus.present \/ k > Len(Plan(db))
     THEN /\ ret' = "null"
          /\ reg' = IdleReg
          /\ UNCHANGED db
     ELSE IF thrown
     THEN /\ ret' = "throw"
          /\ reg' = IdleReg
          /\ UNCHANGED db
     ELSE /\ PromptThrows(syllabusWithContext(db.syllabus))
          /\ ret' = "course"
          /\ db' = [db EXCEPT !.status = "ready", !.errorMessage = NoMsg]
          /\ reg' = [IdleReg EXCEPT
                       !.pc = "done", !.k = k, !.course = db', !.pre = db,
                       !.prev = Slice(db.iterationSummaries, k - 1),
                       !.syllabusWithContext = syllabusWithContext(db.syllabus),
                       !.error = PromptFailure.error,
                       !.writes = <<"ready">>]
  /\ UNCHANGED inflight

  /\ UNCHANGED <<fleet, auth>>
\* a Regenerate that persists generating_content while it generates, and
\* the former status afterwards
regenerateSectionMarksBusy(k, thrown) ==
  /\ Quiet
  /\ Budget
  /\ hist # <<>>
  /\ hist' = Append(hist, "regen")
  /\ run' = IdleRun
  /\ IF ~db.exists \/ ~db.syllabus.present \/ k > Len(Plan(db))
     THEN /\ ret' = "null"
          /\ reg' = IdleReg
          /\ UNCHANGED db
     ELSE IF thrown
     THEN /\ ret' = "throw"
          /\ reg' = IdleReg
          /\ UNCHANGED db
     ELSE /\ PromptThrows(syllabusWithContext(db.syllabus))
          /\ ret' = "course"
          /\ db' = db
          /\ reg' = [IdleReg EXCEPT
                       !.pc = "done", !.k = k, !.course = db', !.pre = db,
                       !.prev = Slice(db.iterationSummaries, k - 1),
                       !.syllabusWithContext = syllabusWithContext(db.syllabus),
                       !.error = PromptFailure.error,
                       !.writes = <<"generating_content", db.status>>]
  /\ UNCHANGED inflight

  /\ UNCHANGED <<fleet, auth>>
\* a Regenerate that stores the description it built in the course
regenerateSectionAnnotates(k, thrown) ==
  /\ Quiet
  /\ Budget
  /\ hist # <<>>
  /\ hist' = Append(hist, "regen")
  /\ run' = IdleRun
  /\ IF ~db.exists \/ ~db.syllabus.present \/ k > Len(Plan(db))
     THEN /\ ret' = "null"
          /\ reg' = IdleReg
          /\ UNCHANGED db
     ELSE IF thrown
     THEN /\ ret' = "throw"
          /\ reg' = IdleReg
          /\ UNCHANGED db
     ELSE /\ PromptThrows(syllabusWithContext(db.syllabus))
          /\ ret' = "course"
          /\ db' = [db EXCEPT !.syllabus.description = syllabusWithContext(db.syllabus).description]
          /\ reg' = [IdleReg EXCEPT
                       !.pc = "done", !.k = k, !.course = db', !.pre = db,
                       !.prev = Slice(db.iterationSummaries, k - 1),
                       !.syllabusWithContext = syllabusWithContext(db.syllabus),
                       !.error = PromptFailure.error,
                       !.writes = <<db.status>>]
  /\ UNCHANGED inflight

  /\ UNCHANGED <<fleet, auth>>
\* regenerateSection, from its findById to its return.  getAIClient, called
\* by generateModuleContent before its try, may throw.  Otherwise building
\* the prompt from syllabusWithContext throws inside the try, and
\* generateModuleContent answers with a failure: no call is issued, the
\* branch `if (contentResult.success)` with its assignments and its save is
\* not entered, and the course is returned as it was loaded.
regenerateSection(k, thrown) ==
  /\ Quiet
  /\ Budget
  /\ hist # <<>>
  /\ hist' = Append(hist, "regen")
  /\ run' = IdleRun
  /\ IF ~db.exists \/ ~db.syllabus.present \/ k > Len(Plan(db))
     THEN /\ ret' = "null"
          /\ reg' = IdleReg
          /\ UNCHANGED db
     ELSE IF thrown
     THEN /\ ret' = "throw"
          /\ reg' = IdleReg
          /\ UNCHANGED db
     ELSE /\ PromptThrows(syllabusWithContext(db.syllabus))
          /\ ret' = "course"
          /\ reg' = [IdleReg EXCEPT
                       !.pc = "done", !.k = k, !.course = db, !.pre = db,
                       !.prev = Slice(db.iterationSummaries, k - 1),
                       !.syllabusWithContext = syllabusWithContext(db.syllabus),
                       !.error = PromptFailure.error]
          /\ UNCHANGED db
  /\ UNCHANGED inflight

  /\ UNCHANGED <<fleet, auth>>
\* handleRegenerateCourse: the response built from what regenerateSection
\* returned (null, a course) or threw
handleRegenerateCourse(answer) ==
  CASE answer = "null" -> [status |-> 404, error |-> TRUE]
    [] answer = "throw" -> [status |-> 500, error |-> TRUE]
    [] OTHER -> [status |-> 200, error |-> FALSE]

----------------------------------------------------------------------------
(* The process stops for good (a crash, or a restart after a stuck call):  *)
(* the task and its pending calls are gone, the persisted course stays.    *)

Crash ==
  /\ Active(run) \/ Active(reg)
  /\ Budget
  /\ run' = IdleRun
  /\ reg' = IdleReg
  /\ inflight' = {}
  /\ hist' = Append(hist, "crash")
  /\ UNCHANGED <<db, ret>>

  /\ UNCHANGED <<fleet, auth>>
----------------------------------------------------------------------------

\* The forward pass alone, from Create to the end of its run, under every
\* outcome of every generation call.
ForwardNext ==
  \/ createCourse
  \/ ProcessStart
  \/ \E o \in QualifierOutcomes : QualifierReturn(o)
  \/ SyllabusAnswer
  \/ ContentIssue
  \/ ContentThrow
  \/ \E o \in ContentOutcomes : ContentReturn(o)
  \/ \E o \in SummaryOutcomes : SummaryReturn(o)
  \/ Finish

SpecForward == Init /\ [][ForwardNext]_vars

\* All operations on the course, one at a time.  A module generation either
\* succeeds or fails; the kinds of failure and of summary, which differ in
\* their text only, are those of OpContentOutcomes and OpSummaryOutcomes.
Next ==
  \/ createCourse
  \/ ProcessStart
  \/ \E o \in OpQualifierOutcomes : QualifierReturn(o)
  \/ SyllabusAnswer
  \/ ContentIssue
  \/ \E o \in OpContentOutcomes : ContentReturn(o)
  \/ \E o \in OpSummaryOutcomes : SummaryReturn(o)
  \/ Finish
  \/ resumeCourse
  \/ ResumeStart
  \/ \E k \in 1..MaxModules, thrown \in BOOLEAN : regenerateSection(k, thrown)
  \/ Crash

Spec == Init /\ [][Next]_vars

\* Create and Resume with a persistence failure: the final save of a run may
\* be rejected.
FaultNext ==
  \/ createCourse
  \/ ProcessStart
  \/ \E o \in QualifierOutcomes : QualifierReturn(o)
  \/ SyllabusAnswer
  \/ ContentIssue
  \/ \E o \in OpContentOutcomes : ContentReturn(o)
  \/ \E o \in OpSummaryOutcomes : SummaryReturn(o)
  \/ Finish
  \/ FinishSaveThrows
  \/ resumeCourse
  \/ ResumeStart

SpecFaults == Init /\ [][FaultNext]_vars

----------------------------------------------------------------------------
(* Several courses.  Every operation is given a courseId; it loads its     *)
(* document with Course.findById(courseId) and saves the document it       *)
(* loaded.  Each step below is a function of the collection and of the     *)
(* task's locals, applied to the shared collection and, for comparison, to *)
(* the collection the course would have on its own.                        *)

\* a lookup that ignores the id and returns the oldest document
findOne(store, id) == [id |-> 1, course |-> store[1]]

\* Course.findById(id): the document and its _id
findById(store, id) == [id |-> id, course |-> store[id]]

\* new Course(...).save(): the document is inserted under its _id
save(store, id, course) == [store EXCEPT ![id] = course]

\* What course.save() does to a document the task loaded is the business
\* of the persistence layer, one layer per deployment.  A layer that stores
\* documents writes the snapshot the task holds ("document"), also when the
\* document was deleted in the meantime.  A layer that updates documents
\* writes the paths the task changed since it last loaded or saved the
\* document ("paths"), and nothing when the document is gone; it may reject
\* the save ("rejected") when the document is gone, and when a Resume run
\* assigns array entries or sorts and the stored arrays are no longer those
\* the run last saw.  With one task per document the outcomes coincide.
Layers == {"document", "paths"}

SaveOutcomes == {"document", "paths", "rejected"}

\* the outcomes a save of the task can have
SaveAllowed(layer, store, t, saved) ==
  \/ saved = "document" /\ layer = "document"
  \/ saved = "paths" /\ layer = "paths"
  \/ /\ saved = "rejected"
     /\ layer = "paths"
     /\ \/ ~store[t.id].exists
        \/ /\ t.kind = "resume"
           /\ t.pc = "loop"
           /\ \/ store[t.id].modules # t.base.modules
              \/ store[t.id].iterationSummaries # t.base.iterationSummaries

\* an array written by paths: pushed entries are appended to the stored
\* array, entries assigned by index are set at their index
ArrayPaths(stored, base, arr) ==
  IF arr = base THEN stored
  ELSE IF Len(arr) > Len(base) /\ SubSeq(arr, 1, Len(base)) = base
  THEN stored \o SubSeq(arr, Len(base) + 1, Len(arr))
  ELSE [q \in 1..Max({Len(stored), Len(arr)}) |->
          IF q <= Len(arr) /\ (q > Len(base) \/ arr[q] # base[q]) THEN arr[q]
          ELSE IF q <= Len(stored) THEN stored[q]
          ELSE Null]

\* the document after a save by paths: a field the task did not change
\* keeps its stored value; an array that was sorted in place is written whole
savePaths(stored, base, course, sorted) ==
  [stored EXCEPT
     !.status = IF course.status # base.status THEN course.status ELSE @,
     !.errorMessage = IF course.errorMessage # base.errorMessage
                      THEN course.errorMessage ELSE @,
     !.improvedPrompt = IF course.improvedPrompt # base.improvedPrompt
                        THEN course.improvedPrompt ELSE @,
     !.syllabus = IF course.syllabus # base.syllabus THEN course.syllabus ELSE @,
     !.modules = IF sorted THEN course.modules
                 ELSE ArrayPaths(@, base.modules, course.modules),
     !.iterationSummaries =
        ArrayPaths(@, base.iterationSummaries, course.iterationSummaries)]

\* the save throws
SaveThrows(store, t, saved) == saved = "rejected"

\* the collection after an acknowledged save of the document the task holds
saveIn(store, t, course, saved, sorted) ==
  IF saved = "document" THEN save(store, t.id, course)
  ELSE IF ~store[t.id].exists THEN store
  ELSE save(store, t.id, savePaths(store[t.id], t.base, course, sorted))

\* the plans the courses are given: distinct titles, any length
CoursePlans == {[p \in 1..n |-> p] : n \in 0..MaxCourseModules}

\* createCourse: a new document under a fresh _id, and the background task
\* started with that id
createCourseIn(store, t, c) ==
  [store |-> save(store, c, NewCourse),
   task |-> [IdleTask EXCEPT !.pc = "start", !.kind = "create",
                             !.courseId = c, !.ops = t.ops + 1,
                             !.answer = "course",
                             !.deletes = t.deletes, !.deleted = t.deleted,
                             !.layer = t.layer]]

\* deleteCourse: Course.findByIdAndDelete(courseId), and whether there was
\* a document; the tasks of the course go on with the documents they hold
deleteCourseIn(store, t, c) ==
  [store |-> [store EXCEPT ![c] = NoCourse],
   task |-> [t EXCEPT !.deletes = @ + 1,
                      !.deleted = IF store[c].exists THEN "true" ELSE "false"]]

\* processCourseAsync and resumeCourseAsync up to their first await of the
\* generation service
taskStartIn(store, t) ==
  LET found == findById(store, t.courseId)
      gone == ~found.course.exists
              \/ (t.kind = "resume" /\ ~found.course.syllabus.present)
  IN [store |-> store,
      task |-> IF gone THEN [t EXCEPT !.pc = "done"]
               ELSE [t EXCEPT !.pc = IF t.kind = "create" THEN "qualifier"
                                     ELSE "loop",
                              !.i = 1,
                              !.id = found.id, !.course = found.course,
                              !.base = found.course]]

\* The outermost catch of processCourseAsync and of resumeCourseAsync: it
\* awaits findById(courseId), and the step ends when the document is
\* loaded, with status and errorMessage set on it and its save called, or
\* with no document found.  A sort that throws enters the catch in the
\* step that answers the findById; a save that throws is a step of its
\* own, which leaves the task in the catch with its findById awaited
\* (saveThrowsIn), and the findById is answered in a later step (catchIn).
caughtIn(store, t, msg) ==
  LET found == findById(store, t.courseId)
  IN IF ~found.course.exists
     THEN [store |-> store, task |-> [t EXCEPT !.pc = "done"]]
     ELSE [store |-> store,
           task |-> [t EXCEPT !.pc = "fatal_save", !.id = found.id,
                              !.base = found.course,
                              !.course = FatalCourse(found.course, msg)]]

\* the save awaited inside the outermost try is rejected
saveThrowsIn(store, t) ==
  [store |-> store, task |-> [t EXCEPT !.pc = "caught"]]

\* the findById of the catch entered by a rejected save
catchIn(store, t) == caughtIn(store, t, SaveError)

qualifierReturnIn(store, t, outcome, saved) ==
  LET filterResult == filterAndImprovePrompt(outcome)
      course == IF filterResult.isValid
                THEN QualifierAccepted(t.course, filterResult)
                ELSE QualifierRejected(t.course, filterResult)
  IN IF SaveThrows(store, t, saved) THEN saveThrowsIn(store, t)
     ELSE [store |-> saveIn(store, t, course, saved, FALSE),
           task |-> [t EXCEPT !.course = course, !.base = course,
                              !.pc = IF filterResult.isValid THEN "syllabus"
                                     ELSE "done"]]

syllabusReturnIn(store, t, outcome, s, saved) ==
  LET syllabusResult == generateSyllabus(outcome, s, "none")
      course == IF syllabusResult.success
                THEN SyllabusStored(t.course, syllabusResult)
                ELSE SyllabusFailed(t.course, syllabusResult)
  IN IF SaveThrows(store, t, saved) THEN saveThrowsIn(store, t)
     ELSE [store |-> saveIn(store, t, course, saved, FALSE),
           task |-> [t EXCEPT !.course = course, !.base = course, !.i = 1,
                              !.pc = IF syllabusResult.success THEN "loop"
                                     ELSE "done"]]

\* one iteration of the module loop, from the return of
\* generateModuleContent to the save; a save that throws is caught by the
\* catch of the iteration, with the module left in the document the task
\* holds
moduleReturnIn(store, t, outcome, saved) ==
  LET p == CurPos(t)
      pmod == Plan(t.course)[p]
      summary == [pos |-> p, gen |-> t.ops,
                  text |-> extractModuleSummary("text")]
      result == ContentSuccess([pos |-> p, gen |-> t.ops], summary)
  IN IF outcome # "ok"
     THEN [store |-> store,
           task |-> RecordFailure(t, outcome, ContentFailure(outcome).error)]
     ELSE IF t.kind = "resume" /\ FindIndexThrows(t.course.modules, pmod.title)
     THEN [store |-> store, task |-> RecordFailure(t, "typeerror", NullError)]
     ELSE LET course == IF t.kind = "create"
                        THEN ForwardSuccess(t.course, pmod, result)
                        ELSE ResumeSuccess(t.course, p, pmod, result)
              summaries == IF t.kind = "create" THEN Append(t.summaries, summary)
                           ELSE t.summaries
          IN IF SaveThrows(store, t, saved)
             THEN [store |-> store,
                   task |-> [RecordFailure(t, "rejected", SaveError) EXCEPT
                               !.course = course, !.summaries = summaries]]
             ELSE [store |-> saveIn(store, t, course, saved, FALSE),
                   task |-> [t EXCEPT
                               !.pc = "loop", !.i = NextIndex(t, TRUE),
                               !.course = course, !.base = course,
                               !.summaries = summaries,
                               !.results =
                                  Append(@, [pos |-> p, outcome |-> "ok"])]]

\* the loop is over: final status and save.  The sort, or the save, may
\* throw into the outermost catch.
finishIn(store, t, saved) ==
  IF t.kind = "resume" /\ SortThrows(t.course.modules)
  THEN caughtIn(store, t, NullError)
  ELSE IF SaveThrows(store, t, saved) THEN saveThrowsIn(store, t)
  ELSE LET course == IF t.kind = "create"
                     THEN FinalizeForward(t.course, t.failedModules)
                     ELSE FinalizeResume(t.course, t.failedModules)
       IN [store |-> saveIn(store, t, course, saved, t.kind = "resume"),
           task |-> [t EXCEPT !.pc = "done", !.course = course,
                              !.base = course]]

\* the save of the outermost catch is done, or it throws out of the task
fatalSaveIn(store, t, saved) ==
  IF SaveThrows(store, t, saved)
  THEN [store |-> store, task |-> [t EXCEPT !.pc = "done"]]
  ELSE [store |-> saveIn(store, t, t.course, saved, FALSE),
        task |-> [t EXCEPT !.pc = "done", !.base = t.course]]

\* resumeCourse from its invocation to its await of course.save(): the
\* document is loaded, the missing modules are listed, status and
\* errorMessage are set on the loaded document
resumeCourseIn(store, t, c) ==
  LET found == findById(store, c)
      idle == [IdleTask EXCEPT !.courseId = c, !.ops = t.ops + 1,
                               !.kind = "resume",
                               !.deletes = t.deletes, !.deleted = t.deleted,
                               !.layer = t.layer]
  IN IF ~found.course.exists \/ ~found.course.syllabus.present
     THEN [store |-> store, task |-> [idle EXCEPT !.answer = "null"]]
     ELSE IF HasNull(found.course.modules)
     THEN [store |-> store, task |-> [idle EXCEPT !.answer = "throw"]]
     ELSE IF MissingModules(found.course) = <<>>
     THEN [store |-> store,
           task |-> [idle EXCEPT !.pc = "resume_save", !.answer = "pending",
                                 !.id = found.id, !.base = found.course,
                                 !.course = ResumeReady(found.course)]]
     ELSE [store |-> store,
           task |-> [idle EXCEPT !.pc = "resume_save", !.answer = "pending",
                                 !.id = found.id, !.base = found.course,
                                 !.course = ResumeGenerating(found.course),
                                 !.missing = MissingModules(found.course)]]

\* the save of resumeCourse is done: resumeCourseAsync is started when
\* modules are missing, and the course is returned; a save that throws
\* ends resumeCourse
resumeSaveIn(store, t, saved) ==
  IF SaveThrows(store, t, saved)
  THEN [store |-> store, task |-> [t EXCEPT !.pc = "done", !.answer = "throw"]]
  ELSE [store |-> saveIn(store, t, t.course, saved, FALSE),
        task |-> [t EXCEPT !.pc = IF t.missing = <<>> THEN "done" ELSE "start",
                           !.base = t.course,
                           !.answer = "course"]]

\* a Regenerate whose generation succeeds and that saves the document it
\* loaded with the module
regenerateSectionInSaves(store, t, c, k) ==
  LET found == findById(store, c)
      idle == [IdleTask EXCEPT !.courseId = c, !.ops = t.ops + 1,
                               !.kind = "regenerate", !.k = k,
                               !.deletes = t.deletes, !.deleted = t.deleted,
                               !.layer = t.layer]
      summary == [pos |-> k, gen |-> t.ops + 1, text |-> "text"]
      result == ContentSuccess([pos |-> k, gen |-> t.ops + 1], summary)
  IN IF ~found.course.exists \/ ~found.course.syllabus.present
        \/ k > Len(Plan(found.course))
     THEN [store |-> store, task |-> [idle EXCEPT !.answer = "null"]]
     ELSE LET course ==
                [found.course EXCEPT
                   !.modules = ArraySet(@, k, Realized(Plan(found.course)[k],
                                                       result)),
                   !.iterationSummaries = ArraySet(@, k, summary)]
          IN [store |-> save(store, found.id, course),
              task |-> [idle EXCEPT !.pc = "done", !.answer = "course",
                                    !.id = found.id, !.course = course,
                                    !.results = <<[pos |-> k, outcome |-> "ok"]>>]]

\* a Regenerate that does not test that the plan has the module
regenerateSectionInAnyIndex(store, t, c, k) ==
  LET found == findById(store, c)
      idle == [IdleTask EXCEPT !.courseId = c, !.ops = t.ops + 1,
                               !.kind = "regenerate", !.k = k,
                               !.deletes = t.deletes, !.deleted = t.deleted,
                               !.layer = t.layer]
  IN IF ~found.course.exists \/ ~found.course.syllabus.present
     THEN [store |-> store, task |-> [idle EXCEPT !.answer = "null"]]
     ELSE [store |-> store,
           task |-> [idle EXCEPT !.pc = "done", !.answer = "course",
                                 !.id = found.id, !.course = found.course]]

\* regenerateSection, from its findById to its return: the generation it
\* awaits fails before any call is issued (PromptThrows), nothing is
\* assigned or saved, and the document is returned as it was loaded
regenerateSectionIn(store, t, c, k) ==
  LET found == findById(store, c)
      idle == [IdleTask EXCEPT !.courseId = c, !.ops = t.ops + 1,
                               !.kind = "regenerate", !.k = k,
                               !.deletes = t.deletes, !.deleted = t.deleted,
                               !.layer = t.layer]
  IN IF ~found.course.exists \/ ~found.course.syllabus.present
        \/ k > Len(Plan(found.course))
     THEN [store |-> store, task |-> [idle EXCEPT !.answer = "null"]]
     ELSE [store |-> store,
           task |-> [idle EXCEPT !.pc = "done", !.answer = "course",
                                 !.id = found.id, !.course = found.course]]

\* A step of the task of course c: shared is its effect on the shared
\* collection, private its effect on the collection of course c alone.
CourseStep(c, shared, private) ==
  /\ courses' = shared.store
  /\ tasks' = [tasks EXCEPT ![c] = shared.task]
  /\ alone' = [alone EXCEPT ![c] = private]
  /\ UNCHANGED <<db, run, reg, inflight, hist, ret, auth>>

\* operations on one course are invoked one at a time
CourseQuiet(c) == tasks[c].pc \in {"idle", "done"}

CourseBudget(c) == tasks[c].ops < 1 + MaxCourseOps

CreateOf(c) ==
  /\ ~courses[c].exists
  /\ tasks[c].ops = 0
  /\ CourseStep(c, createCourseIn(courses, tasks[c], c),
                   createCourseIn(alone[c].store, alone[c].task, c))

StartOf(c) ==
  /\ tasks[c].pc = "start"
  /\ CourseStep(c, taskStartIn(courses, tasks[c]),
                   taskStartIn(alone[c].store, alone[c].task))

\* the save of the step of course c can have the outcome saved, under one
\* layer or the other
CourseSave(c, saved) ==
  \E layer \in Layers : SaveAllowed(layer, courses, tasks[c], saved)

QualifierOf(c, outcome, saved) ==
  /\ tasks[c].pc = "qualifier"
  /\ CourseSave(c, saved)
  /\ CourseStep(c, qualifierReturnIn(courses, tasks[c], outcome, saved),
                   qualifierReturnIn(alone[c].store, alone[c].task, outcome,
                                     saved))

SyllabusOf(c, outcome, s, saved) ==
  /\ tasks[c].pc = "syllabus"
  /\ CourseSave(c, saved)
  /\ CourseStep(c, syllabusReturnIn(courses, tasks[c], outcome, s, saved),
                   syllabusReturnIn(alone[c].store, alone[c].task, outcome, s,
                                    saved))

ModuleOf(c, outcome, saved) ==
  /\ tasks[c].pc = "loop"
  /\ tasks[c].i <= LoopLen(tasks[c])
  /\ CourseSave(c, saved)
  /\ CourseStep(c, moduleReturnIn(courses, tasks[c], outcome, saved),
                   moduleReturnIn(alone[c].store, alone[c].task, outcome,
                                  saved))

FinishOf(c, saved) ==
  /\ tasks[c].pc = "loop"
  /\ tasks[c].i > LoopLen(tasks[c])
  /\ CourseSave(c, saved)
  /\ CourseStep(c, finishIn(courses, tasks[c], saved),
                   finishIn(alone[c].store, alone[c].task, saved))

\* the findById of the catch, a step of its own after the rejected save
CatchOf(c) ==
  /\ tasks[c].pc = "caught"
  /\ CourseStep(c, catchIn(courses, tasks[c]),
                   catchIn(alone[c].store, alone[c].task))

\* the save of the outermost catch, a step of its own after the reload
FatalSaveOf(c, saved) ==
  /\ tasks[c].pc = "fatal_save"
  /\ CourseSave(c, saved)
  /\ CourseStep(c, fatalSaveIn(courses, tasks[c], saved),
                   fatalSaveIn(alone[c].store, alone[c].task, saved))

\* resumeCourse with the id c, which a course may or may not have
ResumeOf(c) ==
  /\ CourseQuiet(c)
  /\ CourseBudget(c)
  /\ CourseStep(c, resumeCourseIn(courses, tasks[c], c),
                   resumeCourseIn(alone[c].store, alone[c].task, c))

\* the save of resumeCourse, a step of its own after the load: the steps
\* of the other courses fall between the two
ResumeSaveOf(c, saved) ==
  /\ tasks[c].pc = "resume_save"
  /\ CourseSave(c, saved)
  /\ CourseStep(c, resumeSaveIn(courses, tasks[c], saved),
                   resumeSaveIn(alone[c].store, alone[c].task, saved))

\* regenerateSection with the id c, which a course may or may not have
RegenerateOf(c, k) ==
  /\ CourseQuiet(c)
  /\ CourseBudget(c)
  /\ CourseStep(c, regenerateSectionIn(courses, tasks[c], c, k),
                   regenerateSectionIn(alone[c].store, alone[c].task, c, k))

\* A save or a load that an operation of the course c is waiting for is
\* done.  The catch of a run is entered when the sort meets a module slot
\* left empty, which no step leaves, or when a save is rejected, which
\* takes a second task on the course or a delete: with the operations of a
\* course invoked one at a time its load and its save are not reached
\* here, and they are reached with two tasks on one course (RaceCatch,
\* RaceFatalSave).
SaveOf(c, saved) ==
  IF tasks[c].pc = "caught" THEN CatchOf(c)
  ELSE IF tasks[c].pc = "fatal_save" THEN FatalSaveOf(c, saved)
  ELSE ResumeSaveOf(c, saved)

\* The steps of the courses, interleaved in any order.
CoursesNext ==
  \E c \in CourseIds :
    \/ CreateOf(c)
    \/ StartOf(c)
    \/ ResumeOf(c)
    \/ \E k \in 1..MaxCourseModules : RegenerateOf(c, k)
    \/ \E saved \in SaveOutcomes :
         \/ \E o \in {"valid", "rejected"} : QualifierOf(c, o, saved)
         \/ \E o \in {"json", "empty"}, s \in CoursePlans :
              SyllabusOf(c, o, s, saved)
         \/ \E o \in OpContentOutcomes : ModuleOf(c, o, saved)
         \/ FinishOf(c, saved)
         \/ SaveOf(c, saved)

SpecCourses == Init /\ [][CoursesNext]_vars

----------------------------------------------------------------------------
(* Two tasks on one course.  Nothing in course.service keeps an operation  *)
(* from being invoked while a task of the same course is under way: the    *)
(* two entries of tasks are here two tasks of the course RaceCourse, each   *)
(* with the document it loaded and the outcome of each of its saves.  A    *)
(* task is cut at every await, of the generation service and of the        *)
(* collection; the course can be deleted between any two steps.            *)

RaceCourse == 1

\* the plans the course is given
RacePlans == {[p \in 1..n |-> p] : n \in 0..MaxRaceModules}

Slots == CourseIds

\* the number of operations invoked on the course so far
Invoked == Max({tasks[s].ops : s \in Slots})

\* the locals an operation starts from: it is the next operation on the
\* course
Fresh(s) == [tasks[s] EXCEPT !.ops = Invoked]

\* the number of deleteCourse calls so far, counted in the first entry
Deleted == tasks[1].deletes

RaceBudget == Invoked + Deleted < 1 + MaxRaceOps

RaceStep(s, shared) ==
  /\ courses' = shared.store
  /\ tasks' = [tasks EXCEPT ![s] = shared.task]
  /\ UNCHANGED <<alone, db, run, reg, inflight, hist, ret, auth>>

\* the persistence layer of the collection, noted in the first entry
Layer == tasks[1].layer

\* the save of the step of the task s can have the outcome saved
RaceSave(s, saved) == SaveAllowed(Layer, courses, tasks[s], saved)

RaceCreate(layer) ==
  /\ ~courses[RaceCourse].exists
  /\ Invoked = 0
  /\ RaceStep(1, createCourseIn(courses, [tasks[1] EXCEPT !.layer = layer],
                                RaceCourse))

RaceStart(s) ==
  /\ tasks[s].pc = "start"
  /\ RaceStep(s, taskStartIn(courses, tasks[s]))

RaceQualifier(s, outcome, saved) ==
  /\ tasks[s].pc = "qualifier"
  /\ RaceSave(s, saved)
  /\ RaceStep(s, qualifierReturnIn(courses, tasks[s], outcome, saved))

RaceSyllabus(s, outcome, plan, saved) ==
  /\ tasks[s].pc = "syllabus"
  /\ RaceSave(s, saved)
  /\ RaceStep(s, syllabusReturnIn(courses, tasks[s], outcome, plan, saved))

RaceModule(s, outcome, saved) ==
  /\ tasks[s].pc = "loop"
  /\ tasks[s].i <= LoopLen(tasks[s])
  /\ RaceSave(s, saved)
  /\ RaceStep(s, moduleReturnIn(courses, tasks[s], outcome, saved))

RaceFinish(s, saved) ==
  /\ tasks[s].pc = "loop"
  /\ tasks[s].i > LoopLen(tasks[s])
  /\ RaceSave(s, saved)
  /\ RaceStep(s, finishIn(courses, tasks[s], saved))

\* the findById of the catch: the other task and deleteCourse run between
\* the rejected save and it
RaceCatch(s) ==
  /\ tasks[s].pc = "caught"
  /\ RaceStep(s, catchIn(courses, tasks[s]))

RaceFatalSave(s, saved) ==
  /\ tasks[s].pc = "fatal_save"
  /\ RaceSave(s, saved)
  /\ RaceStep(s, fatalSaveIn(courses, tasks[s], saved))

RaceResumeSave(s, saved) ==
  /\ tasks[s].pc = "resume_save"
  /\ RaceSave(s, saved)
  /\ RaceStep(s, resumeSaveIn(courses, tasks[s], saved))

\* resumeCourse, invoked whatever the other task is doing
RaceResume(s) ==
  /\ CourseQuiet(s)
  /\ RaceBudget
  /\ Invoked > 0
  /\ RaceStep(s, resumeCourseIn(courses, Fresh(s), RaceCourse))

\* regenerateSection, invoked whatever the other task is doing
RaceRegenerate(s, k) ==
  /\ CourseQuiet(s)
  /\ RaceBudget
  /\ Invoked > 0
  /\ RaceStep(s, regenerateSectionIn(courses, Fresh(s), RaceCourse, k))

\* deleteCourse, invoked whatever the tasks are doing
RaceDelete ==
  /\ RaceBudget
  /\ Invoked > 0
  /\ RaceStep(1, deleteCourseIn(courses, tasks[1], RaceCourse))

RaceNext ==
  \/ \E layer \in Layers : RaceCreate(layer)
  \/ RaceDelete
  \/ \E s \in Slots :
       \/ RaceStart(s)
       \/ RaceResume(s)
       \/ RaceCatch(s)
       \/ \E k \in 1..MaxRaceModules : RaceRegenerate(s, k)
       \/ \E saved \in SaveOutcomes :
            \/ \E o \in {"valid", "rejected"} : RaceQualifier(s, o, saved)
            \/ \E o \in {"json", "empty"}, plan \in RacePlans :
                 RaceSyllabus(s, o, plan, saved)
            \/ \E o \in OpContentOutcomes : RaceModule(s, o, saved)
            \/ RaceFinish(s, saved)
            \/ RaceFatalSave(s, saved)
            \/ RaceResumeSave(s, saved)

SpecRace == Init /\ [][RaceNext]_vars

----------------------------------------------------------------------------
(* Sessions: auth.service, jwt.service and the requireAuth middleware.  A   *)
(* token is its payload: typ, ver (the tokenVersion it was issued under)   *)
(* and role.  Tokens are those the service issued, so their signature and  *)
(* format are valid; whether a token has expired when it is presented is   *)
(* an input of the request.                                                *)

\* createToken: the payload of a token of the given type
createToken(u, tokenVersion, tokenType) ==
  [typ |-> tokenType, ver |-> tokenVersion, role |-> u.role]

\* buildAuthResponse: an access token and a refresh token
buildAuthResponse(u, tokenVersion) ==
  {createToken(u, tokenVersion, "access"),
   createToken(u, tokenVersion, "refresh")}

\* verifyToken: "ok" or the message of the error it throws
verifyToken(token, expectedType, expired) ==
  IF token.typ # expectedType THEN "Invalid token type"
  ELSE IF expired THEN "Token expired"
  ELSE "ok"

\* requireAuth: the status of the response, 200 standing for next()
requireAuth(u, token, expired) ==
  IF verifyToken(token, "access", expired) # "ok" THEN 401
  ELSE IF ~u.exists THEN 401
  ELSE IF u.tokenVersion # token.ver THEN 401
  ELSE 200

\* refreshAuthSession: the status of the response, 200 with new tokens
refreshAuthSession(u, token, expired) ==
  IF verifyToken(token, "refresh", expired) # "ok" THEN 401
  ELSE IF ~u.exists THEN 401
  ELSE IF u.tokenVersion # token.ver THEN 401
  ELSE 200

Untouched == UNCHANGED <<db, run, reg, inflight, hist, ret, fleet>>

\* the answer to a registerUser call
Registered(status) ==
  [op |-> "register", token |-> NoRequest.token, wasRevoked |-> FALSE,
   status |-> status]

\* the calls between their check and their create
Registering ==
  registering["standard"] + registering["premium"] + registering["admin"]

\* registerUser up to the answer of User.findOne: 409 when the email is in
\* use, and otherwise the call goes on to User.create
registerUser(role) ==
  /\ IF user.exists
     THEN /\ req' = Registered(409)
          /\ UNCHANGED registering
     ELSE /\ Registering < MaxRegistering
          /\ registering' = [registering EXCEPT ![role] = @ + 1]
          /\ UNCHANGED req
  /\ UNCHANGED <<user, issued, revoked>>
  /\ Untouched

\* User.create and what follows it.  The schema declares the email unique:
\* when another call has created the user since the check, the insert is
\* refused with a duplicate key error, which errorMiddleware answers 500.
registerUserCreate(role) ==
  /\ registering[role] > 0
  /\ registering' = [registering EXCEPT ![role] = @ - 1]
  /\ IF user.exists
     THEN /\ req' = Registered(500)
          /\ UNCHANGED <<user, issued>>
     ELSE /\ user' = [exists |-> TRUE, role |-> role, tokenVersion |-> 0]
          /\ issued' = issued \cup buildAuthResponse(user', user'.tokenVersion)
          /\ req' = Registered(201)
  /\ UNCHANGED revoked
  /\ Untouched

loginUser ==
  /\ user.exists
  /\ issued' = issued \cup buildAuthResponse(user, user.tokenVersion)
  /\ UNCHANGED <<user, revoked, req, registering>>
  /\ Untouched

\* a request to a protected route with an issued access or refresh token
ProtectedRequest(token, expired) ==
  /\ token \in issued
  /\ req' = [op |-> "access", token |-> token,
             wasRevoked |-> token \in revoked,
             status |-> requireAuth(user, token, expired)]
  /\ UNCHANGED <<user, issued, revoked, registering>>
  /\ Untouched

\* a refresh request with an issued token
RefreshRequest(token, expired) ==
  /\ token \in issued
  /\ req' = [op |-> "refresh", token |-> token,
             wasRevoked |-> token \in revoked,
             status |-> refreshAuthSession(user, token, expired)]
  /\ issued' = IF refreshAuthSession(user, token, expired) = 200
               THEN issued \cup buildAuthResponse(user, user.tokenVersion)
               ELSE issued
  /\ UNCHANGED <<user, revoked, registering>>
  /\ Untouched

\* $inc: { tokenVersion: 1 }
logoutCurrentUser ==
  /\ user.exists
  /\ user.tokenVersion < MaxVersion
  /\ user' = [user EXCEPT !.tokenVersion = @ + 1]
  /\ revoked' = revoked \cup issued
  /\ UNCHANGED <<issued, req, registering>>
  /\ Untouched

\* a role update that leaves tokenVersion as it is
updateUserRoleKeepsVersion(role) ==
  /\ user.exists
  /\ user.tokenVersion < MaxVersion
  /\ user' = [user EXCEPT !.role = role]
  /\ revoked' = revoked \cup issued
  /\ UNCHANGED <<issued, req, registering>>
  /\ Untouched

\* $set: { role }, $inc: { tokenVersion: 1 }
updateUserRole(role) ==
  /\ user.exists
  /\ user.tokenVersion < MaxVersion
  /\ user' = [user EXCEPT !.role = role, !.tokenVersion = @ + 1]
  /\ revoked' = revoked \cup issued
  /\ UNCHANGED <<issued, req, registering>>
  /\ Untouched

AuthNext ==
  \/ \E role \in UserRoles : registerUser(role)
  \/ \E role \in UserRoles : registerUserCreate(role)
  \/ loginUser
  \/ \E token \in issued, expired \in BOOLEAN : ProtectedRequest(token, expired)
  \/ \E token \in issued, expired \in BOOLEAN : RefreshRequest(token, expired)
  \/ logoutCurrentUser
  \/ \E role \in UserRoles : updateUserRole(role)

SpecAuth == Init /\ [][AuthNext]_vars

----------------------------------------------------------------------------
(* Vocabulary of the properties *)

Range(f) == {f[q] : q \in DOMAIN f}

DistinctTitles(course) ==
  \A p, q \in DOMAIN Plan(course) :
    p # q => Plan(course)[p].title # Plan(course)[q].title

\* one realized module per plan module, in plan order
Complete(course) ==
  /\ ~HasNull(course.modules)
  /\ Len(course.modules) = Len(Plan(course))
  /\ \A p \in DOMAIN Plan(course) :
       course.modules[p].title = Plan(course)[p].title

\* the plan positions whose title no realized module carries
MissingSet(course) ==
  {p \in DOMAIN Plan(course) :
     \A q \in DOMAIN course.modules :
       course.modules[q] = Null \/ course.modules[q].title # Plan(course)[p].title}

NoMissing(course) ==
  /\ course.exists
  /\ course.syllabus.present
  /\ ~HasNull(course.modules)
  /\ MissingSet(course) = {}

\* the reason a failed generation is reported with
ExpectedReason(outcome) ==
  CASE outcome = "empty" -> "No response from AI"
    [] outcome = "error" -> "Failed to generate module content: API error"
    [] outcome = "throw" -> "client error"
    [] OTHER -> "Cannot read properties of null (reading 'title')"

Succeeded(res) == {q \in DOMAIN res : res[q].outcome = "ok"}

Failed(res) == DOMAIN res \ Succeeded(res)

\* msg has a 'Module <position> (title): reason' entry for every failure in res
ListsFailures(msg, res, plan) ==
  /\ msg.set
  /\ \A q \in Failed(res) :
       \E e \in DOMAIN msg.failed :
         msg.failed[e] = [pos |-> res[q].pos, title |-> plan[res[q].pos].title,
                          reason |-> ExpectedReason(res[q].outcome)]

\* the run of Create went through its module loop and made its final save
ForwardDone ==
  run.kind = "create" /\ run.pc = "done" /\ db.syllabus.present

\* a Resume run made its final save
ResumeDone == run.kind = "resume" /\ run.pc = "done"

\* every run so far ran to its end
NoStop == \A q \in DOMAIN hist : hist[q] # "crash"

RunCalls == {c \in inflight : c.task = "run"}

----------------------------------------------------------------------------
(* Properties *)

\* C1: whenever the persisted course is ready with no errorMessage, no
\* operation is under way and every run so far ran to its end, it has one
\* realized module per plan module, with the titles of the plan in plan
\* order.
C1_ReadyMeansComplete ==
  (/\ db.exists
   /\ NoStop
   /\ Quiet
   /\ db.status = "ready"
   /\ ~db.errorMessage.set)
    => Complete(db)

\* C2: a persisted course that has a syllabus never has more realized
\* modules than plan modules, after any forward pass, Regenerate and Resume.
C2_ModulesWithinPlan ==
  db.syllabus.present => Len(db.modules) <= Len(Plan(db))

\* a Resume has filled the plan of a course that a forward pass left
\* partial and a Regenerate call was made on
W_C2 ==
  /\ hist = <<"create", "regen", "resume">>
  /\ ResumeDone
  /\ Len(run.pre.modules) < Len(Plan(db))
  /\ Len(db.modules) = Len(Plan(db))
  /\ Len(db.modules) >= 2

\* C3: at the end of a forward pass over n >= 1 modules: no success gives
\* error, no module and every reason in errorMessage; some successes and
\* some failures give ready, as many modules as successes and one entry per
\* failed module; all successes give ready and no errorMessage.
C3_ForwardOutcome ==
  (ForwardDone /\ Len(Plan(db)) >= 1) =>
    LET res == run.results
        n == Len(Plan(db))
        succ == Cardinality(Succeeded(res))
    IN /\ Len(res) = n
       /\ succ = 0 =>
            /\ db.status = "error"
            /\ db.modules = <<>>
            /\ ListsFailures(db.errorMessage, res, Plan(db))
       /\ (0 < succ /\ succ < n) =>
            /\ db.status = "ready"
            /\ Len(db.modules) = succ
            /\ ListsFailures(db.errorMessage, res, Plan(db))
            /\ Len(db.errorMessage.failed) = n - succ
       /\ succ = n =>
            /\ db.status = "ready"
            /\ ~db.errorMessage.set

W_C3 ==
  /\ ForwardDone
  /\ Len(run.results) = 3
  /\ run.results[1].outcome = "ok"
  /\ run.results[2].outcome = "error"
  /\ run.results[3].outcome = "ok"
  /\ db.status = "ready"
  /\ Len(db.modules) = 2

\* C4: the forward pass enters content generation once for every plan
\* module, in ascending plan order, whatever the earlier outcomes.
C4_EveryModuleAttemptedOnce ==
  run.kind = "create" =>
    /\ \A q \in DOMAIN run.attempts : run.attempts[q] = q
    /\ Len(run.attempts) <= Len(Plan(run.course))
    /\ ForwardDone => Len(run.attempts) = Len(Plan(db))

W_C4 ==
  /\ ForwardDone
  /\ Len(run.results) = 3
  /\ run.results[1].outcome = "throw"
  /\ run.results[2].outcome = "empty"
  /\ run.attempts = <<1, 2, 3>>

\* C5: at most one generation call of the run is pending, and while the
\* call of an attempt is pending every earlier attempt has been resolved.
C5_StrictlySequential ==
  /\ Cardinality(RunCalls) <= 1
  /\ \A c \in RunCalls :
       c.call \in {"content", "summary"} =>
         /\ Len(run.attempts) >= 1
         /\ c.pos = run.attempts[Len(run.attempts)]
         /\ Len(run.results) = Len(run.attempts) - 1

W_C5 ==
  /\ run.kind = "create"
  /\ run.pc = "content"
  /\ run.i = 2
  /\ Len(run.results) = 1
  /\ run.results[1].outcome = "ok"
  /\ inflight = {Call("run", "content", 2)}

\* C6: Resume on a course with no missing module issues no generation
\* call, leaves modules and iterationSummaries as they are, sets ready and
\* clears errorMessage; on a course it already left so it changes nothing.
C6_ResumeIdempotent ==
  [][(hist' = Append(hist, "resume") /\ NoMissing(db)) =>
       /\ db'.modules = db.modules
       /\ db'.iterationSummaries = db.iterationSummaries
       /\ db'.syllabus = db.syllabus
       /\ db'.status = "ready"
       /\ ~db'.errorMessage.set
       /\ inflight' = {}
       /\ ~Active(run')
       /\ NoMissing(db')
       /\ (db.status = "ready" /\ ~db.errorMessage.set) => db' = db]_vars

W_C6 ==
  /\ hist = <<"create", "resume", "resume">>
  /\ ret = "course"
  /\ run.pc = "idle"
  /\ db.status = "ready"
  /\ ~db.errorMessage.set
  /\ Len(db.modules) >= 2

\* C7: on a course left by a forward pass, with pairwise distinct titles,
\* Resume generates exactly the missing plan positions in ascending order;
\* if all succeed the course is complete, ready and without errorMessage.
C7_ResumeConverges ==
  (hist = <<"create", "resume">> /\ run.kind = "resume"
     /\ DistinctTitles(run.pre)) =>
    /\ \A a, b \in DOMAIN run.attempts : a < b => run.attempts[a] < run.attempts[b]
    /\ Range(run.attempts) \subseteq MissingSet(run.pre)
    /\ ResumeDone => Range(run.attempts) = MissingSet(run.pre)
    /\ (ResumeDone /\ Failed(run.results) = {}) =>
         /\ Complete(db)
         /\ db.status = "ready"
         /\ ~db.errorMessage.set

W_C7 ==
  /\ hist = <<"create", "resume">>
  /\ ResumeDone
  /\ Len(Plan(db)) = 3
  /\ DistinctTitles(db)
  /\ Len(run.pre.modules) = 2
  /\ run.pre.modules[1].title = 1
  /\ run.pre.modules[2].title = 3
  /\ run.attempts = <<2>>
  /\ Complete(db)
  /\ db.status = "ready"

\* C8: after a forward run that stopped for good once the syllabus was
\* persisted, a Resume whose generation calls all succeed leaves the course
\* ready with one realized module per plan module in plan order.
C8_CrashThenResumeCompletes ==
  (/\ hist = <<"create", "crash", "resume">>
   /\ db.syllabus.present
   /\ \/ run.pc = "idle" /\ ret = "course"
      \/ ResumeDone /\ Failed(run.results) = {})
    => (db.status = "ready" /\ Complete(db))

\* C9 as stated, on a plan with distinct titles whose runs all ran to their
\* end: at the end of a Resume run, no success gives error with all
\* reasons, some successes and some failures give ready with the failures
\* listed, all successes give ready and no errorMessage.
C9_ResumeOutcomeAsForward ==
  (ResumeDone /\ NoStop /\ DistinctTitles(db)) =>
    LET res == run.results
        succ == Cardinality(Succeeded(res))
        fail == Cardinality(Failed(res))
    IN /\ succ = 0 =>
            /\ db.status = "error"
            /\ ListsFailures(db.errorMessage, res, Plan(db))
       /\ (succ > 0 /\ fail > 0) =>
            /\ db.status = "ready"
            /\ ListsFailures(db.errorMessage, res, Plan(db))
       /\ fail = 0 =>
            /\ db.status = "ready"
            /\ ~db.errorMessage.set

\* the summaries of the realized plan modules before position p, in plan
\* order
RealizedBefore(course, p) ==
  LET before == SelectSeq([q \in 1..(p - 1) |-> q],
                          LAMBDA q : q \notin MissingSet(course))
  IN [a \in DOMAIN before |->
        course.modules[FindIndex(course.modules,
                                 Plan(course)[before[a]].title)].summary]

\* C10: the prior summaries passed to the generation of a missing module at
\* position p by Resume are the summaries of the realized plan modules
\* before p, in plan order, and none of a module at p or after.
C10_ResumePriorSummaries ==
  (/\ hist = <<"create", "resume">>
   /\ run.kind = "resume"
   /\ run.pc = "content"
   /\ DistinctTitles(run.course)) =>
    /\ run.prev = RealizedBefore(run.course, CurPos(run))
    /\ \A a \in DOMAIN run.prev :
         run.prev[a] # Null /\ run.prev[a].pos < CurPos(run)

\* C11: in every persisted snapshot, an entry of iterationSummaries at
\* position p is the summary produced for plan module p.
C11_SummariesIndexAligned ==
  \A p \in DOMAIN db.iterationSummaries :
    db.iterationSummaries[p] # Null => db.iterationSummaries[p].pos = p

\* the entry of an array at a position, Absent past its end
Absent == [absent |-> TRUE]

At(arr, j) == IF j \in DOMAIN arr THEN arr[j] ELSE Absent

\* the positions of an array before and after a step
Positions(a, b) == DOMAIN a \cup DOMAIN b

\* a step that is a regenerateSection call
RegenerateCall == hist' = Append(hist, "regen")

\* C12: a Regenerate call for plan position k leaves every position other
\* than k of modules and of iterationSummaries as it was (absent where it
\* was absent), for every k, those past the end of modules included.  (The
\* generation inside the call does not succeed: position k is not replaced.)
C12_RegenerateFrame ==
  [][RegenerateCall =>
       /\ \A j \in Positions(db.modules, db'.modules) \ {reg'.k} :
            At(db'.modules, j) = At(db.modules, j)
       /\ \A j \in Positions(db.iterationSummaries, db'.iterationSummaries)
                    \ {reg'.k} :
            At(db'.iterationSummaries, j) = At(db.iterationSummaries, j)]_vars

\* a Regenerate call for a position of the plan past the end of modules, on
\* a course with a realized module
W_C12 ==
  /\ hist = <<"create", "regen">>
  /\ reg.pc = "done"
  /\ ret = "course"
  /\ db.modules # <<>>
  /\ reg.k > Len(db.modules)
  /\ db.modules = reg.pre.modules
  /\ db.iterationSummaries = reg.pre.iterationSummaries

\* a step in which Regenerate ends without a regenerated module: the
\* generation returned a failure, or generateModuleContent threw
RegenerateFailed ==
  /\ RegenerateCall
  /\ reg'.error # "" \/ ret' = "throw"

\* C13: when the module generation inside Regenerate fails nothing is
\* saved: the persisted course is the one the call loaded.
C13_FailedRegenerateSavesNothing ==
  [][RegenerateFailed =>
       /\ db' = db
       /\ reg'.pc = "done" => db' = reg'.pre]_vars

W_C13 ==
  /\ reg.pc = "done"
  /\ reg.error # ""
  /\ ret = "course"
  /\ db = reg.pre
  /\ db.status = "ready"
  /\ Len(db.modules) >= 2
  /\ hist = <<"create", "regen">>

\* the qualifier answered and did not accept the topic
Rejected == run.kind = "create" /\ run.filterResult.returned
              /\ ~run.filterResult.isValid

\* C14: once the qualifier has rejected the topic the run is over with
\* persisted status error and the rejection reason as errorMessage, no
\* syllabus, no module, and no syllabus or module call issued.
C14_RejectionEndsRun ==
  Rejected =>
    /\ run.pc = "done"
    /\ db.status = "error"
    /\ db.errorMessage = run.filterResult.rejectionReason
    /\ ~db.syllabus.present
    /\ db.modules = <<>>
    /\ db.iterationSummaries = <<>>
    /\ RunCalls = {}
    /\ ~run.syllabusResult.returned
    /\ run.attempts = <<>>
    /\ run.writes = <<"filtering_prompt", "error">>

W_C14 ==
  /\ Rejected
  /\ run.filterResult.rejectionReason = Msg("rejection reason", <<>>)
  /\ db.status = "error"
  /\ db.errorMessage.prefix = "rejection reason"

\* the syllabus call answered with something generateSyllabus turned down
SyllabusRejected == run.kind = "create" /\ run.syllabusResult.returned
                      /\ ~run.syllabusResult.success

\* C15: a syllabus response that does not parse or does not validate (a
\* lesson without content_outline does not) ends the run with persisted
\* status error and the generator's failure message; generating_content was
\* never persisted, there is no syllabus and no module.
C15_SyllabusFailureEndsRun ==
  /\ (run.syllabusResult.returned
        /\ run.syllabusResult.omitted = "lessons.content_outline") =>
       /\ SyllabusRejected
       /\ run.syllabusResult.error = Msg("Schema validation failed: ", <<>>)
  /\ SyllabusRejected =>
       /\ run.pc = "done"
       /\ db.status = "error"
       /\ db.errorMessage = run.syllabusResult.error
       /\ db.errorMessage.prefix \in
            {"Schema validation failed: ", "Failed to parse syllabus: ",
             "No response from AI"}
       /\ "generating_content" \notin Range(run.writes)
       /\ ~db.syllabus.present
       /\ db.modules = <<>>
       /\ run.attempts = <<>>
       /\ RunCalls = {}

W_C15 ==
  /\ SyllabusRejected
  /\ run.syllabusResult.omitted = "lessons.content_outline"
  /\ db.status = "error"
  /\ db.errorMessage.prefix = "Schema validation failed: "
  /\ run.writes = <<"filtering_prompt", "generating_syllabus", "error">>

\* a step in which an exception reaches the outermost catch of the run
ExceptionEscapes == run.fatal = "" /\ run'.fatal # ""

\* C16: when an exception escapes the run of Create or of Resume (a
\* transport error of the qualifier or syllabus call, a rejected final save)
\* the persisted course gets status error and the exception's message as
\* errorMessage, and keeps the modules, summaries and syllabus persisted
\* before; the run is over.
C16_FatalForcesError ==
  [][ExceptionEscapes =>
       /\ db'.status = "error"
       /\ db'.errorMessage = Msg(run'.fatal, <<>>)
       /\ db'.modules = db.modules
       /\ db'.iterationSummaries = db.iterationSummaries
       /\ db'.syllabus = db.syllabus
       /\ run'.pc = "done"]_vars

W_C16 ==
  /\ run.kind = "resume"
  /\ run.pc = "done"
  /\ run.fatal = SaveError
  /\ Succeeded(run.results) # {}
  /\ db.status = "error"
  /\ db.errorMessage = Msg(SaveError, <<>>)
  /\ Len(db.modules) >= 2

\* createCourse has returned and the background run has not started
Created == run.kind = "create" /\ run.pc = "start"

\* C17 as stated: Create persists the new course with status draft, no
\* syllabus and empty modules and iterationSummaries before the background
\* run starts, and draft is the first status persisted for the course.
C17_CreatePersistsDraft ==
  /\ Created =>
       /\ db.exists
       /\ db.status = "draft"
       /\ ~db.syllabus.present
       /\ db.modules = <<>>
       /\ db.iterationSummaries = <<>>
  /\ run.kind = "create" => run.writes[1] = "draft"

\* C17 amended: Create persists the new course with status
\* filtering_prompt, no syllabus, no improvedPrompt and empty modules and
\* iterationSummaries before the background run starts; filtering_prompt is
\* the first status persisted for the course and draft, the schema's default,
\* is never persisted by Create or its run.
C17_CreatePersistsFilteringPrompt ==
  /\ Created =>
       /\ db.exists
       /\ db.status = "filtering_prompt"
       /\ ~db.syllabus.present
       /\ ~db.improvedPrompt
       /\ ~db.errorMessage.set
       /\ db.modules = <<>>
       /\ db.iterationSummaries = <<>>
  /\ run.kind = "create" =>
       /\ run.writes[1] = "filtering_prompt"
       /\ "draft" \notin Range(run.writes)
       /\ db.status # "draft"

W_C17 ==
  /\ Created
  /\ hist = <<"create">>
  /\ db.exists
  /\ db.status = "filtering_prompt"

RegCalls == {c \in inflight : c.task = "reg"}

\* C18: createCourse returns the course as it was persisted (no
\* improvedPrompt, no syllabus, no module) before any generation call of the
\* course is issued, and its caller holds that answer while calls of the run
\* are pending; the caller of regenerateSection has no answer as long as the
\* generation of its module is pending.
C18_CreateReturnsAtOnce ==
  [][/\ (hist = <<>> /\ hist' = <<"create">>) =>
          /\ ret' = "course"
          /\ db' = NewCourse
          /\ ~db'.improvedPrompt /\ ~db'.syllabus.present /\ db'.modules = <<>>
          /\ inflight' = {}
          /\ run'.pc = "start"
     /\ (hist' = <<"create">> /\ RunCalls' # {}) => ret' = "course"
     /\ (Active(reg') \/ RegCalls' # {}) => ret' = "pending"
     /\ (RegenerateCall /\ ret' = "course") =>
          /\ RegCalls' = {}
          /\ reg'.pc = "done"
     /\ (ret = "pending" /\ ret' = "course" /\ hist' = hist) =>
          /\ RegCalls' = {}
          /\ reg'.pc = "done"]_vars

W_C18 ==
  /\ hist = <<"create">>
  /\ ret = "course"
  /\ run.pc = "qualifier"
  /\ inflight = {Call("run", "qualifier", 0)}
  /\ ~db.improvedPrompt

\* the status changes of the state machine, a status to itself included
Forward(s, t) ==
  \/ s = t
  \/ s = "draft" /\ t = "filtering_prompt"
  \/ s = "filtering_prompt" /\ t = "generating_syllabus"
  \/ s = "generating_syllabus" /\ t = "generating_content"
  \/ s = "generating_content" /\ t = "ready"
  \/ s \notin {"ready", "error"} /\ t = "error"

\* C19: during a Create run every change of the persisted status is one
\* step forward along filtering_prompt, generating_syllabus,
\* generating_content, ready, or a step to error from a status that is not
\* final; generating_content is persisted only together with a syllabus,
\* and after ready or error the run writes nothing.
C19_StatusMovesForward ==
  [][db.exists =>
       /\ Forward(db.status, db'.status)
       /\ db'.status = "generating_content" => db'.syllabus.present
       /\ db.status \in {"ready", "error"} => (db' = db /\ run' = run)]_vars

W_C19 ==
  /\ ForwardDone
  /\ db.status = "ready"
  /\ run.writes = <<"filtering_prompt", "generating_syllabus",
                    "generating_content", "generating_content",
                    "generating_content", "ready">>

\* a step in which the summary call of a module of the forward pass returns
SummaryReturned == run.kind = "create" /\ run.pc = "summary" /\ run'.pc # "summary"

ContentReasons ==
  {"No response from AI", "Failed to generate module content: API error",
   ClientError}

\* C20: when the content call of a module succeeded, the module is
\* successful whatever the summary call does: it is appended to modules with
\* the generated content and a non-empty summary (a placeholder when the
\* summary call failed or returned nothing) and nothing is added to the
\* failure list; every entry of the failure list is a content failure.
C20_SummaryFailureKeepsModule ==
  [][/\ SummaryReturned =>
          /\ Len(db'.modules) = Len(db.modules) + 1
          /\ LET m == db'.modules[Len(db'.modules)]
             IN /\ m.title = Plan(db)[CurPos(run)].title
                /\ m.generatedContent = run.content
                /\ m.summary.text \in {"text", "Summary not available",
                                       "Summary extraction failed"}
                /\ m.summary.text # ""
          /\ run'.failedModules = run.failedModules
          /\ run'.results = Append(run.results,
                                   [pos |-> CurPos(run), outcome |-> "ok"])
     /\ \A e \in DOMAIN run'.failedModules :
          run'.failedModules[e].reason \in ContentReasons]_vars

W_C20 ==
  /\ ForwardDone
  /\ Len(db.modules) = 2
  /\ db.modules[1].summary.text = "Summary extraction failed"
  /\ db.modules[2].summary.text = "Summary not available"
  /\ db.status = "ready"
  /\ ~db.errorMessage.set

\* a step in which Resume is invoked on a course in status error
ResumeOnError == hist' = Append(hist, "resume") /\ db.status = "error"

\* C21 as stated: Resume invoked on a course in status error, whatever
\* produced the error, is accepted and moves the course to
\* generating_content, or to ready when nothing is missing.
C21_ErrorRecoverable ==
  [][ResumeOnError =>
       /\ ret' = "course"
       /\ db'.status = IF MissingSet(db) = {} THEN "ready"
                       ELSE "generating_content"]_vars

\* C21 amended: Resume invoked on a course in status error that has a
\* syllabus is accepted: it clears errorMessage and moves the course to
\* generating_content, or to ready when no plan title is missing.  A course
\* in error without a syllabus (rejection, syllabus failure, exception
\* before the syllabus was stored) is answered not-found and stays in error.
C21_ErrorWithSyllabusRecoverable ==
  [][ResumeOnError =>
       IF ~db.syllabus.present
       THEN ret' = "null" /\ db' = db /\ ~Active(run')
       ELSE /\ ret' = "course"
            /\ ~db'.errorMessage.set
            /\ db'.status = IF MissingSet(db) = {} THEN "ready"
                            ELSE "generating_content"
            /\ Active(run') <=> MissingSet(db) # {}]_vars

W_C21 ==
  /\ hist = <<"create", "resume">>
  /\ run.kind = "resume"
  /\ run.pc = "start"
  /\ run.pre.status = "error"
  /\ run.pre.errorMessage.prefix = "All modules failed to generate. Errors: "
  /\ db.status = "generating_content"
  /\ ~db.errorMessage.set
  /\ ret = "course"

\* the qualifier answered with text that is not JSON or with JSON that has
\* no isValid key
UnusableAnswer ==
  /\ run.kind = "create"
  /\ run.filterResult.response \in
       {"malformed", "no_validity", "no_validity_reason"}

\* what the persisted course of a business rejection looks like
LikeRejection(course) ==
  /\ course.status = "error"
  /\ \/ course.errorMessage = Msg("rejection reason", <<>>)
     \/ ~course.errorMessage.set

\* C22: a qualifier response that is not JSON or lacks the validity field
\* ends the run in error with a generic qualifier failure message, and the
\* persisted course is not that of a rejection with its rejection reason.
C22_UnusableAnswerIsHardFailure ==
  UnusableAnswer =>
    /\ db.status = "error"
    /\ db.errorMessage.set
    /\ db.errorMessage.prefix \in
         {"Failed to parse AI response", "qualifier failed"}
    /\ ~LikeRejection(db)

\* C24: a Resume run that started with a missing module ends with the
\* persisted status ready or error, never generating_content, on every
\* course left by forward passes, Regenerate calls and earlier Resume runs
\* that ran to their end.
C24_ResumeEndsReadyOrError ==
  (ResumeDone /\ NoStop) => db.status \in {"ready", "error"}

\* the plan positions that have a realized module, matched by title
RealizedSet(course) == DOMAIN Plan(course) \ MissingSet(course)

\* C25: a Regenerate call leaves a realized module for every plan position
\* that had one before the call, also on a course whose modules are a
\* strict subset of the plan.
C25_RegenerateLosesNoModule ==
  [][RegenerateCall => RealizedSet(db) \subseteq RealizedSet(db')]_vars

\* a Regenerate call for the first plan position on a course whose first
\* module failed and whose second module is realized
W_C25 ==
  /\ hist = <<"create", "regen">>
  /\ reg.pc = "done"
  /\ reg.k = 1
  /\ 1 \in MissingSet(reg.pre)
  /\ 2 \in RealizedSet(reg.pre)
  /\ 2 \in RealizedSet(db)

\* C26: a Regenerate call does not change the persisted status and
\* persists no status, intermediate or final: the status it leaves is the
\* one it found, ready or not.
C26_RegenerateKeepsStatus ==
  [][RegenerateCall =>
       /\ db'.status = db.status
       /\ db'.errorMessage = db.errorMessage
       /\ reg'.writes = <<>>
       /\ reg'.pc = "done" => db'.status = reg'.pre.status]_vars

\* a Regenerate call answered with the course, on a course in error
W_C26 ==
  /\ hist = <<"create", "regen">>
  /\ reg.pc = "done"
  /\ ret = "course"
  /\ reg.pre.status = "error"
  /\ reg.writes = <<>>
  /\ db.status = "error"

\* a Regenerate call on a ready course has completed
RegeneratedReady == reg.pc = "done" /\ reg.pre.status = "ready"

\* C27 as stated: Regenerate on a ready course persists generating_content
\* while it generates its module, and the status is ready again when the
\* call completes.
C27_RegenerateReentersGenerating ==
  RegeneratedReady =>
    /\ "generating_content" \in Range(reg.writes)
    /\ db.status = "ready"

\* C27 amended: Regenerate on a ready course never persists
\* generating_content: the call persists no status, and the persisted
\* status is ready when the call completes.
C27_RegenerateStaysReady ==
  RegeneratedReady =>
    /\ "generating_content" \notin Range(reg.writes)
    /\ reg.writes = <<>>
    /\ db.status = "ready"

W_C27 ==
  /\ hist = <<"create", "regen">>
  /\ RegeneratedReady
  /\ ret = "course"
  /\ db.status = "ready"
  /\ db = reg.pre

\* C28: a failed module generation inside Regenerate is surfaced to the
\* caller: regenerateSection does not answer as it does for a success, and
\* the response built from its answer reports an error.
C28_RegenerateFailureSurfaced ==
  (reg.pc = "done" /\ reg.error # "" /\ NoStop) =>
    /\ ret # "course"
    /\ handleRegenerateCourse(ret).error

\* C29: whenever a Create or Resume run has a generation call pending, and
\* whenever it stands between two module generations, the persisted course
\* equals the run's in-memory course: every status change and every
\* generated module was saved before the next call was issued.
C29_SavedBeforeNextCall ==
  (RunCalls # {} \/ run.pc = "loop") => db = run.course

W_C29 ==
  /\ run.kind = "resume"
  /\ run.pc = "content"
  /\ run.i >= 2
  /\ Len(run.results) >= 1
  /\ run.results[Len(run.results)].outcome = "ok"
  /\ RunCalls = {Call("run", "content", CurPos(run))}
  /\ Len(db.modules) >= 1
  /\ db = run.course

\* plan index of the q-th persisted module
PlanIndex(course, q) == course.modules[q].generatedContent.pos

\* C30: in every snapshot persisted during a forward pass the modules are
\* plan modules in strictly increasing plan index.
C30_ForwardPersistsInPlanOrder ==
  run.kind = "create" =>
    \A q \in DOMAIN db.modules :
      /\ PlanIndex(db, q) \in DOMAIN Plan(db)
      /\ db.modules[q].title = Plan(db)[PlanIndex(db, q)].title
      /\ \A r \in 1..(q - 1) : PlanIndex(db, r) < PlanIndex(db, q)

W_C30 ==
  /\ ForwardDone
  /\ Len(Plan(db)) = 3
  /\ Len(db.modules) = 2
  /\ PlanIndex(db, 1) = 1
  /\ PlanIndex(db, 2) = 3

\* C23: under any interleaving of the steps of the courses, the persisted
\* document of each course and the locals of its task are what they would
\* be had the course's operations run alone; a task holds no document but
\* its own course's; and a step of one course leaves the documents and the
\* tasks of the other courses as they were.
C23_CoursesDoNotInteract ==
  [][\A c \in CourseIds :
       /\ courses'[c] = alone'[c].store[c]
       /\ tasks'[c] = alone'[c].task
       /\ tasks'[c].id \in {0, c}
       /\ tasks'[c] # tasks[c] =>
            \A d \in CourseIds \ {c} :
              courses'[d] = courses[d] /\ tasks'[d] = tasks[d]]_vars

W_C23 ==
  /\ tasks[1].kind = "regenerate"
  /\ tasks[1].pc = "done"
  /\ tasks[1].answer = "course"
  /\ Len(courses[1].modules) >= 1
  /\ tasks[2].kind = "resume"
  /\ tasks[2].pc = "loop"
  /\ tasks[2].i = 2
  /\ Len(tasks[2].results) = 1
  /\ tasks[2].results[1].outcome = "ok"
  /\ courses[2].status = "generating_content"
  /\ courses[1] # courses[2]
  /\ \A c \in CourseIds : courses[c] = alone[c].store[c]

\* C31: whenever the persisted status is error, errorMessage is set.
C31_ErrorHasMessage ==
  db.status = "error" => db.errorMessage.set

\* a forward run or a Resume run that has not ended
ActiveRun(t) ==
  t.kind \in {"create", "resume"} /\ t.pc \notin {"idle", "resume_save", "done"}

\* the plan position whose generation the task awaits, 0 if none
Generating(t) ==
  IF t.kind \in {"create", "resume"} /\ t.pc = "loop" /\ t.i <= LoopLen(t)
  THEN CurPos(t) ELSE 0

\* C32: at most one forward or Resume run of the course is active at any
\* time, and no plan module is being generated by two runs at once.
C32_OneRunPerCourse ==
  /\ ~(ActiveRun(tasks[1]) /\ ActiveRun(tasks[2]))
  /\ Generating(tasks[1]) # 0 => Generating(tasks[1]) # Generating(tasks[2])

\* the pieces of content held by a modules array
Contents(mods) ==
  {mods[q].generatedContent : q \in {r \in DOMAIN mods : mods[r] # Null}}

\* the content a Regenerate task generated
Regenerated(t) == [pos |-> t.k, gen |-> t.ops]

\* the Regenerate task has ended and saved its module
RegenerateSavedBy(t) ==
  /\ t.kind = "regenerate"
  /\ t.pc = "done"
  /\ Regenerated(t) \in Contents(t.course.modules)

\* the pieces of content a run has saved
SavedBy(t) ==
  {[pos |-> t.results[q].pos, gen |-> t.ops] : q \in Succeeded(t.results)}

\* The first entry of tasks holds the one run of the course, a forward run
\* or the Resume run that followed it, and the second entry a Regenerate,
\* the one operation invoked since that run was started.
RunAndRegenerate ==
  /\ Deleted = 0
  /\ tasks[1].kind \in {"create", "resume"}
  /\ tasks[1].ops \in {1, 2}
  /\ tasks[2].kind = "regenerate"
  /\ tasks[2].ops = tasks[1].ops + 1

\* C33, for a Regenerate invoked while the one run of a course is under
\* way, on a course that nobody deletes: every module the run has saved is
\* in the persisted course, at every moment after the Regenerate and when
\* the run has ended, and so is a module the Regenerate has saved (it
\* saves none).
C33_ConcurrentRegenerateKept ==
  RunAndRegenerate =>
    /\ SavedBy(tasks[1]) \subseteq Contents(courses[RaceCourse].modules)
    /\ RegenerateSavedBy(tasks[2]) =>
         Regenerated(tasks[2]) \in Contents(courses[RaceCourse].modules)

\* the Regenerate loaded the course while the run was generating (a
\* Resume run, of a module the forward pass had failed on) and answered
\* before the run saved the module; the run has ended
W_C33 ==
  /\ RunAndRegenerate
  /\ tasks[1].kind = "resume"
  /\ tasks[2].answer = "course"
  /\ tasks[2].course.status = "generating_content"
  /\ Len(tasks[2].course.modules) < Len(courses[RaceCourse].modules)
  /\ tasks[1].pc = "done"
  /\ SavedBy(tasks[1]) # {}
  /\ courses[RaceCourse].status = "ready"

\* C34: once a syllabus is persisted no step changes it; the syllabus a
\* Regenerate hands to the generation call is a copy whose description
\* carries the context, and the persisted one is as it was.
C34_SyllabusImmutable ==
  [][db.syllabus.present => db'.syllabus = db.syllabus]_vars

\* a Regenerate call after a forward pass and a Resume: the copy it built
\* carries the context and has no modules, the course it returned and the
\* persisted course have the syllabus that was stored
W_C34 ==
  /\ hist = <<"create", "resume", "regen">>
  /\ reg.pc = "done"
  /\ ret = "course"
  /\ reg.syllabusWithContext.description # db.syllabus.description
  /\ PromptThrows(reg.syllabusWithContext)
  /\ reg.course.syllabus = db.syllabus
  /\ db.syllabus = reg.pre.syllabus
  /\ db.syllabus.description = <<"description">>
  /\ Len(db.syllabus.modules) >= 2

\* C35: in every snapshot persisted during a forward pass,
\* iterationSummaries is as long as modules and its j-th entry is the
\* summary of the j-th module, which is never empty.
C35_ForwardSummariesMatchModules ==
  run.kind = "create" =>
    /\ Len(db.iterationSummaries) = Len(db.modules)
    /\ \A j \in DOMAIN db.modules :
         /\ db.iterationSummaries[j] = db.modules[j].summary
         /\ db.modules[j].summary.text # ""

W_C35 ==
  /\ ForwardDone
  /\ Len(Plan(db)) = 3
  /\ Len(db.modules) = 2
  /\ Len(db.iterationSummaries) = 2
  /\ db.modules[1].summary.text = "Summary extraction failed"
  /\ db.modules[2].summary.text = "Summary not available"
  /\ db.modules[2].summary.pos = 3

\* Resume or Regenerate is invoked with the id c
InvokedOn(c) ==
  /\ tasks'[c].ops = tasks[c].ops + 1
  /\ tasks'[c].kind \in {"resume", "regenerate"}

\* what the invocation on c asks for is not there: no document, no
\* syllabus, or no plan module at the moduleIndex
NotThere(c) ==
  \/ ~courses[c].exists
  \/ ~courses[c].syllabus.present
  \/ tasks'[c].kind = "regenerate" /\ tasks'[c].k > Len(Plan(courses[c]))

\* C36: Resume and Regenerate on an unknown id, on a course without a
\* syllabus, or (Regenerate) with a moduleIndex outside the plan answer
\* not-found, start no task and no generation call, and leave every
\* persisted document as it was.
C36_NotFoundChangesNothing ==
  [][\A c \in CourseIds :
       (InvokedOn(c) /\ NotThere(c)) =>
         /\ tasks'[c].answer = "null"
         /\ tasks'[c].pc = "idle"
         /\ courses' = courses]_vars

W_C36 ==
  /\ ~courses[1].exists
  /\ tasks[1].kind = "resume"
  /\ tasks[1].answer = "null"
  /\ tasks[1].ops = 1
  /\ courses[2].exists
  /\ courses[2].syllabus.present
  /\ Len(Plan(courses[2])) = 1
  /\ tasks[2].kind = "regenerate"
  /\ tasks[2].k = 2
  /\ tasks[2].pc = "idle"
  /\ tasks[2].answer = "null"

\* C37: a syllabus with a module whose lessons list is empty is rejected
\* by the Syllabus Generator, and the course ends in error without reaching
\* generating_content.
C37_EmptyLessonsRejected ==
  (run.syllabusResult.returned /\ run.syllabusResult.omitted = "lessons.items") =>
    /\ ~run.syllabusResult.success
    /\ db.status = "error"
    /\ "generating_content" \notin Range(run.writes)

\* the content calls of the run that are pending
ContentCalls == {c \in RunCalls : c.call = "content"}

\* the prompt of a pending content call: the one the run built last
PromptOf(c) == run.prompt

\* C38: the prompt of every content call, for a plan of n modules and the
\* index i of the call, marks module i as current, every earlier module as
\* completed and every later one as upcoming; its prerequisite block is the
\* starting-fresh text exactly when i = 0 and its forward block the
\* final-module text exactly when i = n - 1.
C38_PromptMarksModules ==
  \A c \in ContentCalls :
    LET n == Len(Plan(run.course))
        i == c.pos - 1
    IN /\ i \in 0..(n - 1)
       /\ \A j \in 0..(n - 1) :
            PromptOf(c).courseContext[j + 1] =
              (IF j = i THEN " (CURRENT MODULE)"
               ELSE IF j < i THEN " (COMPLETED)" ELSE " (UPCOMING)")
       /\ (PromptOf(c).prerequisiteContext = "This is the first module")
            <=> (i = 0)
       /\ (PromptOf(c).forwardContext = "This is the final module")
            <=> (i = n - 1)

W_C38 ==
  /\ run.kind = "create"
  /\ Len(Plan(run.course)) = 3
  /\ ContentCalls = {Call("run", "content", 2)}
  /\ PromptOf(Call("run", "content", 2)).courseContext =
       <<" (COMPLETED)", " (CURRENT MODULE)", " (UPCOMING)">>
  /\ PromptOf(Call("run", "content", 2)).prerequisiteContext
       = "Prerequisites (from previous modules)"
  /\ PromptOf(Call("run", "content", 2)).forwardContext
       = "Upcoming modules (to prepare students for)"

\* the run stored a syllabus whose modules list is empty
EmptyPlan ==
  run.kind = "create" /\ db.syllabus.present /\ Len(Plan(db)) = 0

\* C39: a forward pass over a syllabus with no module issues no module
\* generation call, is never ready, and ends in error with no module.
C39_EmptyPlanEndsInError ==
  EmptyPlan =>
    /\ run.attempts = <<>>
    /\ ContentCalls = {}
    /\ db.modules = <<>>
    /\ db.status # "ready"
    /\ run.pc = "done" =>
         /\ db.status = "error"
         /\ db.errorMessage =
              Msg("All modules failed to generate. Errors: ", <<>>)

W_C39 ==
  /\ EmptyPlan
  /\ ForwardDone
  /\ run.syllabusResult.success
  /\ run.writes =
       <<"filtering_prompt", "generating_syllabus", "generating_content",
         "error">>
  /\ db.status = "error"

\* C40: a token issued before a logout or a role update is rejected by
\* requireAuth and by refreshAuthSession from then on, whatever logins,
\* refreshes, logouts and role updates follow; no issued token carries a
\* version above the user's tokenVersion.
C40_RevokedTokensStayRejected ==
  /\ \A token \in revoked, expired \in BOOLEAN :
       /\ requireAuth(user, token, expired) = 401
       /\ refreshAuthSession(user, token, expired) = 401
  /\ req.wasRevoked => req.status = 401
  /\ \A token \in issued : token.ver <= user.tokenVersion

W_C40 ==
  /\ user.tokenVersion = MaxVersion
  /\ user.role = "admin"
  /\ createToken([role |-> "standard"], 0, "access") \in revoked
  /\ createToken([role |-> "standard"], 1, "refresh") \in revoked
  /\ createToken([role |-> "admin"], MaxVersion, "access") \in issued \ revoked
  /\ req.op = "refresh"
  /\ req.token.ver = 1
  /\ req.wasRevoked
  /\ req.status = 401

====
